---------------------------- MODULE Spec2Model ----------------------------
(***************************************************************************)
(* A model of the addrslips persistence engine (src/src/core/db):          *)
(*   - the Archive Store and its Connection Gate (state.rs): the pool      *)
(*     behind a tokio RwLock, conn(), save_project(),                      *)
(*     internal_close_and_pack(reopen), ProjectState::new;                 *)
(*   - the Repository Layer (mod.rs): the SQL statements of ProjectDb and  *)
(*     AreaDb, applied to the tables of the embedded store.                *)
(*                                                                         *)
(* The store is a record of tables, each table a set of rows.  What a      *)
(* connection reads is View: the main database file overlaid by the        *)
(* write-ahead log.  Several specifications share the variables; each      *)
(* exercises one part of the engine within its own bounds.                 *)
(***************************************************************************)
EXTENDS Integers, Sequences, FiniteSets, TLC

VARIABLES
    pc,           \* per task: the await point the task is suspended at
    reopen,       \* per task: the reopen argument of internal_close_and_pack
    last_conn,    \* result of the last conn() that returned since the last snapshot did
    lockq,        \* tokio RwLock: FIFO queue of tasks waiting for the lock
    readers,      \* tokio RwLock: tasks holding a RwLockReadGuard
    writer,       \* tokio RwLock: the task holding the RwLockWriteGuard
    pool_closed,  \* SqlitePool behind the lock: closed or not
    dbfile,       \* working dir: content of project.db (the main file)
    wal,          \* working dir: content of the write-ahead log
    images,       \* working dir: file names under images/
    archive,      \* the project file (tar.zst) on disk
    gate_view,    \* what the store held when the running snapshot took the write lock
    packed_view,  \* what the store held at the gate of the snapshot that packed archive
    local,        \* per task: locals of the running operation
    last_snap,    \* the last internal_close_and_pack that returned: its argument and result
    retired,      \* an internal_close_and_pack(false) has returned Ok
    last,         \* repository layer: the last completed call, its arguments and result
    held,         \* repository layer: entity values callers still hold
    other,        \* a second project open in the process: its own lock and pool
    executor,     \* PipelineExecutor::execute: channel, locals and result
    app,          \* AddrslipsApp: screen, AppState and the messages under way
    address_db    \* AddressDatabase: the addresses map and its indexes

vars == <<pc, reopen, last_conn, lockq, readers, writer, pool_closed, dbfile,
          wal, images, archive, gate_view, packed_view, local, last_snap, retired,
          last, held, other, executor, app, address_db>>

mem_vars == <<other, executor, app, address_db>>
gate_vars == <<pc, reopen, last_conn, lockq, readers, writer, pool_closed,
               gate_view, local, last_snap, retired>>
disk_vars == <<dbfile, images, archive, packed_view>>

-----------------------------------------------------------------------------
(* Option<T>: None and Some(x).                                            *)
None == <<>>
Some(x) == <<x>>
IsSome(o) == o /= <<>>
Unwrap(o) == o[1]

NoTask == 0

(* Seq of the elements of a finite set of integers, ascending (ORDER BY .. ASC). *)
RECURSIVE SortAsc(_)
SortAsc(S) ==
    IF S = {} THEN <<>>
    ELSE LET m == CHOOSE x \in S : \A y \in S : x <= y
         IN  <<m>> \o SortAsc(S \ {m})

Range(s) == {s[i] : i \in DOMAIN s}

-----------------------------------------------------------------------------
(* The embedded store: one record of tables, and the id counters.          *)
EmptyDb ==
    [area |-> {}, street |-> {}, address |-> {}, team |-> {},
     team_assignment |-> {}, street_polyline_vertices |-> {},
     team_bounds_vertices |-> {},
     seq |-> [area |-> 0, street |-> 0, address |-> 0, team |-> 0]]

NoWal == [none |-> TRUE]

(* What a connection of the pool reads: the main file overlaid by the WAL. *)
ViewOf(file, log) == IF log = NoWal THEN file ELSE log
View == ViewOf(dbfile, wal)

(* A committed write lands in the WAL (journal_mode = Wal).               *)
Commit(d) == wal' = d

-----------------------------------------------------------------------------
(* Color <-> i64 (model.rs) and the AreaState integers (area.rs).          *)
Color_to_i64(c) == c.r * 65536 + c.g * 256 + c.b
Color_try_from(v) ==
    [r |-> (v \div 65536) % 256, g |-> (v \div 256) % 256, b |-> v % 256]

Imported == 0
Complete == 8

(* enum AreaState, in declaration order                                    *)
AreaStateVariants ==
    <<"Imported", "AddressesDetected", "AddressesCorrected", "StreetsDetected",
      "StreetsCorrected", "AddressesAssigned", "FlatsEstimated", "TeamsAssigned",
      "Complete">>

(* A mutant: integers above 8 are read as Complete.                        *)
AreaState_try_from_clamped(value) ==
    IF value \in 0..8 THEN [ok |-> TRUE, val |-> AreaStateVariants[value + 1]]
    ELSE IF value > 8 THEN [ok |-> TRUE, val |-> "Complete"]
    ELSE [ok |-> FALSE, val |-> "Invalid AreaState value"]

(* impl TryFrom<i64> for AreaState                                         *)
AreaState_try_from(value) ==
    CASE value = 0 -> [ok |-> TRUE, val |-> "Imported"]
      [] value = 1 -> [ok |-> TRUE, val |-> "AddressesDetected"]
      [] value = 2 -> [ok |-> TRUE, val |-> "AddressesCorrected"]
      [] value = 3 -> [ok |-> TRUE, val |-> "StreetsDetected"]
      [] value = 4 -> [ok |-> TRUE, val |-> "StreetsCorrected"]
      [] value = 5 -> [ok |-> TRUE, val |-> "AddressesAssigned"]
      [] value = 6 -> [ok |-> TRUE, val |-> "FlatsEstimated"]
      [] value = 7 -> [ok |-> TRUE, val |-> "TeamsAssigned"]
      [] value = 8 -> [ok |-> TRUE, val |-> "Complete"]
      [] OTHER     -> [ok |-> FALSE, val |-> "Invalid AreaState value"]

(* impl From<AreaState> for i64                                            *)
i64_from(state) ==
    CASE state = "Imported"           -> 0
      [] state = "AddressesDetected"  -> 1
      [] state = "AddressesCorrected" -> 2
      [] state = "StreetsDetected"    -> 3
      [] state = "StreetsCorrected"   -> 4
      [] state = "AddressesAssigned"  -> 5
      [] state = "FlatsEstimated"     -> 6
      [] state = "TeamsAssigned"      -> 7
      [] state = "Complete"           -> 8

(* The colours and names callers supply.                                   *)
TEST_RED == [r |-> 255, g |-> 0, b |-> 0]
TEST_BLUE == [r |-> 0, g |-> 0, b |-> 255]

-----------------------------------------------------------------------------
(* SQL statements on the area table.                                       *)

(* INSERT INTO area (name, color, image_fname, state) ... RETURNING id     *)
sql_insert_area(d, name, color_int, image_fname, initial_state) ==
    LET id == d.seq.area + 1
    IN  [d EXCEPT !.area = @ \cup {[id |-> id, name |-> name, color |-> color_int,
                                     image_fname |-> image_fname,
                                     state |-> initial_state]},
                  !.seq.area = id]

(* A mutant: the rows of the area's children stay.                         *)
area_delete_orphans(d, id) == d

(* Rows that go with an area row when it is deleted.                       *)
area_delete_cascade(d, id) ==
    LET streets == {s.id : s \in {x \in d.street : x.area_id = id}}
        teams   == {s.id : s \in {x \in d.team : x.area_id = id}}
    IN  [d EXCEPT !.street = {x \in @ : x.area_id /= id},
                  !.address = {x \in @ : x.area_id /= id},
                  !.team = {x \in @ : x.area_id /= id},
                  !.team_assignment = {x \in @ : x.area_id /= id},
                  !.street_polyline_vertices = {x \in @ : x.street_id \notin streets},
                  !.team_bounds_vertices = {x \in @ : x.team_id \notin teams}]

(* DELETE FROM area WHERE id = $1                                          *)
sql_delete_area(d, id) ==
    [area_delete_cascade(d, id) EXCEPT !.area = {x \in @ : x.id /= id}]

(* SELECT id, name, color, state FROM area ORDER BY id ASC, mapped to Area *)
Area_of(record) ==
    [id |-> record.id, name |-> record.name,
     color |-> Color_try_from(record.color), state |-> record.state]

AreaRow(d, id) == {x \in d.area : x.id = id}

get_areas_of(d) ==
    LET ids == SortAsc({x.id : x \in d.area})
    IN  [i \in DOMAIN ids |-> Area_of(CHOOSE x \in d.area : x.id = ids[i])]

-----------------------------------------------------------------------------
(* ProjectState (state.rs): the gate, the pool, the working directory.     *)

NumTasks == 2        \* concurrent callers of one open project
GateMaxAreas == 1    \* areas ever added while the gate is exercised
max_connections == 5

GateTasks == 1..NumTasks

EmptyArchive == [kind |-> "empty"]
CorruptArchive == [kind |-> "corrupt"]

(* tar of the working directory: project.db, its WAL, images/              *)
save_tar_zstd == [kind |-> "tar", db |-> dbfile, wal |-> wal, images |-> images]

(* Connections checked out of the pool: a live DbConnGuard holds one, and  *)
(* a dropped guard's connection is handed back by a spawned task.          *)
GuardLive(t) == pc[t] \in {"guard", "stored"}
PoolOut == Cardinality({t \in GateTasks : GuardLive(t) \/ pc[t] = "conn_return"})

(* ProjectState::new: no archive packed yet, the pool open, the gate free  *)
InitOpen ==
    /\ archive = EmptyArchive
    /\ packed_view = EmptyDb
    /\ gate_view = EmptyDb
    /\ pool_closed = FALSE
    /\ lockq = <<>>
    /\ readers = {}
    /\ writer = NoTask
    /\ last_snap = None
    /\ last_conn = "none"
    /\ retired = FALSE

InitStore ==
    /\ dbfile = EmptyDb
    /\ wal = NoWal
    /\ images = {}
    /\ InitOpen

(* No second project is open, no pipeline runs, the GUI is not started and *)
(* no AddressDatabase is built.                                            *)
OtherTasks == {"q"}
InitOther ==
    other = [pc |-> [t \in OtherTasks |-> "idle"], readers |-> {},
             pool_closed |-> FALSE, last_conn |-> "none"]
InitExecutor ==
    executor = [pc |-> "idle", via |-> "none", initial_items |-> <<>>,
                channel |-> <<>>, completed_results |-> <<>>, pending_count |-> 0,
                yielded |-> FALSE]
TaskKinds == {"dialog", "change_screen", "load"}
InitApp ==
    app = [screen |-> "LandingPage", current_project |-> None,
           tasks |-> [k \in TaskKinds |-> 0], panicked |-> "none", message |-> "none"]
(* AddressDatabase::new(): every map is empty.  position_index is left   *)
(* out: no operation modelled here reads it.                               *)
AddressDatabase_new ==
    [addresses |-> <<>>, street_index |-> <<>>, addr_index |-> <<>>,
     estimated_flats_index |-> <<>>]
InitAddressDb == address_db = AddressDatabase_new
InitMem == InitOther /\ InitExecutor /\ InitApp /\ InitAddressDb

InitGate ==
    /\ InitStore
    /\ pc = [t \in GateTasks |-> "idle"]
    /\ reopen = [t \in GateTasks |-> FALSE]
    /\ local = [t \in GateTasks |-> 0]
    /\ last = None
    /\ held = None
    /\ InitMem

(* A project opened and served with no snapshot running: every repository *)
(* operation gets its DbConnGuard, runs its statement and returns.         *)
InitRepo == InitGate
RepoFrame ==
    UNCHANGED <<pc, reopen, last_conn, lockq, readers, writer, pool_closed,
                gate_view, local, last_snap, retired, dbfile, archive,
                packed_view>>

(* A caller starts a repository operation: it calls conn(), which awaits   *)
(* self.pool.read().                                                       *)
call_query(t) ==
    /\ pc[t] = "idle"
    /\ pc' = [pc EXCEPT ![t] = "read_wait"]
    /\ lockq' = Append(lockq, t)
    /\ UNCHANGED <<reopen, last_conn, readers, writer, pool_closed, gate_view,
                   local, last_snap, retired, wal, disk_vars, last, held, mem_vars>>

(* let pool_guard = self.pool.read().await                                 *)
conn_read(t) ==
    /\ pc[t] = "read_wait"
    /\ lockq /= <<>> /\ Head(lockq) = t
    /\ writer = NoTask
    /\ readers' = readers \cup {t}
    /\ lockq' = Tail(lockq)
    /\ pc' = [pc EXCEPT ![t] = "acquire"]
    /\ UNCHANGED <<reopen, last_conn, writer, pool_closed, gate_view, local,
                   last_snap, retired, wal, disk_vars, last, held, mem_vars>>

(* let conn = pool_guard.acquire().await?; Ok(DbConnGuard {_pool_guard, conn}) *)
(* A mutant: the guard is built without the read guard, which is dropped.  *)
conn_acquire_unguarded(t) ==
    /\ pc[t] = "acquire"
    /\ \/ /\ pool_closed
          /\ pc' = [pc EXCEPT ![t] = "idle"]
          /\ last_conn' = "Err"
       \/ /\ ~pool_closed
          /\ PoolOut < max_connections
          /\ pc' = [pc EXCEPT ![t] = "guard"]
          /\ last_conn' = "Ok"
    /\ readers' = readers \ {t}
    /\ UNCHANGED <<reopen, lockq, writer, pool_closed, gate_view, local,
                   last_snap, retired, wal, disk_vars, last, held, mem_vars>>

conn_acquire(t) ==
    /\ pc[t] = "acquire"
    /\ \/ /\ pool_closed              \* Error::PoolClosed: `?` drops pool_guard
          /\ pc' = [pc EXCEPT ![t] = "idle"]
          /\ last_conn' = "Err"
          /\ readers' = readers \ {t}
       \/ /\ ~pool_closed
          /\ PoolOut < max_connections
          /\ pc' = [pc EXCEPT ![t] = "guard"]
          /\ last_conn' = "Ok"
          /\ UNCHANGED readers
    /\ UNCHANGED <<reopen, lockq, writer, pool_closed, gate_view, local,
                   last_snap, retired, wal, disk_vars, last, held, mem_vars>>

(* The operation returns: the DbConnGuard is dropped, which releases the   *)
(* read lock; the connection goes back to the pool afterwards.             *)
ReturnDroppingGuard(t) ==
    /\ pc' = [pc EXCEPT ![t] = "conn_return"]
    /\ local' = [local EXCEPT ![t] = 0]
    /\ readers' = readers \ {t}

(* A read-only operation, such as get_areas.                               *)
gate_get_areas(t) ==
    /\ pc[t] = "guard"
    /\ ReturnDroppingGuard(t)
    /\ UNCHANGED <<reopen, last_conn, lockq, writer, pool_closed, gate_view,
                   last_snap, retired, wal, disk_vars, last, held, mem_vars>>

(* Uuid::new_v4(): a name no file of images/ has.                          *)
NewImageName == Cardinality(images) + 1

(* A mutant: add_area calls conn() again while it holds its DbConnGuard.   *)
gate_add_area_store_reacquiring(t) ==
    /\ pc[t] = "guard"
    /\ Cardinality(images) < GateMaxAreas
    /\ pc' = [pc EXCEPT ![t] = "read_wait"]
    /\ lockq' = Append(lockq, t)
    /\ UNCHANGED <<reopen, last_conn, readers, writer, pool_closed, gate_view,
                   local, last_snap, retired, wal, disk_vars, last, held, mem_vars>>

(* add_area, first await: state.store_area_image(&area.image_path)         *)
gate_add_area_store(t) ==
    /\ pc[t] = "guard"
    /\ Cardinality(images) < GateMaxAreas
    /\ \/ /\ images' = images \cup {NewImageName}
          /\ local' = [local EXCEPT ![t] = NewImageName]
          /\ pc' = [pc EXCEPT ![t] = "stored"]
          /\ UNCHANGED readers
       \/ /\ ReturnDroppingGuard(t)         \* the copy fails
          /\ UNCHANGED images
    /\ UNCHANGED <<reopen, last_conn, lockq, writer, pool_closed, gate_view,
                   last_snap, retired, wal, dbfile, archive, packed_view, last, held, mem_vars>>

(* add_area, then: INSERT INTO area ...; load_area_image                   *)
gate_add_area_insert(t) ==
    /\ pc[t] = "stored"
    /\ Commit(sql_insert_area(View, "Test Area", Color_to_i64(TEST_RED),
                              local[t], Imported))
    /\ ReturnDroppingGuard(t)
    /\ UNCHANGED <<reopen, last_conn, lockq, writer, pool_closed, gate_view,
                   last_snap, retired, disk_vars, last, held, mem_vars>>

(* AreaDb::delete through a handle of area id: DELETE FROM area WHERE id = $1 *)
gate_delete(t, id) ==
    /\ pc[t] = "guard"
    /\ id \in 1..View.seq.area
    /\ Commit(sql_delete_area(View, id))
    /\ ReturnDroppingGuard(t)
    /\ UNCHANGED <<reopen, last_conn, lockq, writer, pool_closed, gate_view,
                   last_snap, retired, disk_vars, last, held, mem_vars>>

(* The spawned return of a dropped guard's connection to its pool.         *)
conn_return(t) ==
    /\ pc[t] = "conn_return"
    /\ pc' = [pc EXCEPT ![t] = "idle"]
    /\ UNCHANGED <<reopen, last_conn, lockq, readers, writer, pool_closed,
                   gate_view, local, last_snap, retired, wal, disk_vars, last, held, mem_vars>>

(* save_project() is internal_close_and_pack(true); Drop calls it with     *)
(* false.  The call awaits self.pool.write().                              *)
call_snapshot(t, r) ==
    /\ pc[t] = "idle"
    /\ pc' = [pc EXCEPT ![t] = "write_wait"]
    /\ reopen' = [reopen EXCEPT ![t] = r]
    /\ lockq' = Append(lockq, t)
    /\ UNCHANGED <<last_conn, readers, writer, pool_closed, gate_view, local,
                   last_snap, retired, wal, disk_vars, last, held, mem_vars>>

(* A mutant: the write guard is granted whoever holds the lock.            *)
snap_write_unguarded(t) ==
    /\ pc[t] = "write_wait"
    /\ lockq /= <<>> /\ Head(lockq) = t
    /\ writer' = t
    /\ lockq' = Tail(lockq)
    /\ gate_view' = View
    /\ pc' = [pc EXCEPT ![t] = "checkpoint"]
    /\ UNCHANGED <<reopen, last_conn, readers, pool_closed, local, last_snap,
                   retired, wal, disk_vars, last, held, mem_vars>>

(* let mut pool_guard = self.pool.write().await                            *)
snap_write(t) ==
    /\ pc[t] = "write_wait"
    /\ lockq /= <<>> /\ Head(lockq) = t
    /\ writer = NoTask /\ readers = {}
    /\ writer' = t
    /\ lockq' = Tail(lockq)
    /\ gate_view' = View
    /\ pc' = [pc EXCEPT ![t] = "checkpoint"]
    /\ UNCHANGED <<reopen, last_conn, readers, pool_closed, local, last_snap,
                   retired, wal, disk_vars, last, held, mem_vars>>

(* A mutant: the function returns and the write guard is never dropped.    *)
ReturnKeepingWriteGuard(t, r) ==
    /\ pc' = [pc EXCEPT ![t] = "idle"]
    /\ reopen' = [reopen EXCEPT ![t] = FALSE]
    /\ writer' = writer
    /\ gate_view' = EmptyDb
    /\ last_conn' = "none"
    /\ last_snap' = Some([reopen |-> reopen[t], res |-> r])
    /\ retired' = (retired \/ (r = "Ok" /\ ~reopen[t]))

(* internal_close_and_pack returns r: the write guard is dropped.          *)
ReturnDroppingWriteGuard(t, r) ==
    /\ pc' = [pc EXCEPT ![t] = "idle"]
    /\ reopen' = [reopen EXCEPT ![t] = FALSE]
    /\ writer' = NoTask
    /\ gate_view' = EmptyDb
    /\ last_conn' = "none"
    /\ last_snap' = Some([reopen |-> reopen[t], res |-> r])
    /\ retired' = (retired \/ (r = "Ok" /\ ~reopen[t]))

(* PRAGMA wal_checkpoint(TRUNCATE): the WAL is flushed into project.db and *)
(* truncated.  A mutant: the WAL is truncated and its content lost.        *)
wal_checkpoint_lossy ==
    /\ dbfile' = dbfile
    /\ wal' = NoWal

wal_checkpoint ==
    /\ dbfile' = View
    /\ wal' = NoWal

(* A mutant: a failed checkpoint closes the pool.                          *)
snap_checkpoint_closing(t) ==
    /\ pc[t] = "checkpoint"
    /\ \/ /\ ~pool_closed
          /\ PoolOut < max_connections
          /\ wal_checkpoint
          /\ pc' = [pc EXCEPT ![t] = "close"]
          /\ UNCHANGED <<reopen, writer, gate_view, last_snap, retired, last_conn,
                         pool_closed>>
       \/ /\ ReturnDroppingWriteGuard(t, "Err")
          /\ pool_closed' = TRUE
          /\ UNCHANGED <<dbfile, wal>>
    /\ UNCHANGED <<lockq, readers, local,
                   images, archive, packed_view, last, held, mem_vars>>

(* sqlx::query("PRAGMA wal_checkpoint(TRUNCATE);").execute(&*pool_guard).await? *)
snap_checkpoint(t) ==
    /\ pc[t] = "checkpoint"
    /\ \/ /\ ~pool_closed
          /\ PoolOut < max_connections
          /\ wal_checkpoint
          /\ pc' = [pc EXCEPT ![t] = "close"]
          /\ UNCHANGED <<reopen, writer, gate_view, last_snap, retired, last_conn>>
       \/ /\ ~pool_closed          \* the statement fails
          /\ ReturnDroppingWriteGuard(t, "Err")
          /\ UNCHANGED <<dbfile, wal>>
       \/ /\ pool_closed           \* Error::PoolClosed
          /\ ReturnDroppingWriteGuard(t, "Err")
          /\ UNCHANGED <<dbfile, wal>>
    /\ UNCHANGED <<lockq, readers, pool_closed, local,
                   images, archive, packed_view, last, held, mem_vars>>

(* pool_guard.close().await: marks the pool closed and waits until every   *)
(* connection is back.                                                     *)
snap_close(t) ==
    /\ pc[t] = "close"
    /\ PoolOut = 0
    /\ pool_closed' = TRUE
    /\ pc' = [pc EXCEPT ![t] = "pack"]
    /\ UNCHANGED <<reopen, last_conn, lockq, readers, writer, gate_view, local,
                   last_snap, retired, wal, disk_vars, last, held, mem_vars>>

(* self.save_tar_zstd()?                                                   *)
snap_pack(t) ==
    /\ pc[t] = "pack"
    /\ \/ /\ archive' = save_tar_zstd
          /\ packed_view' = gate_view
          /\ pc' = [pc EXCEPT ![t] = "reopen"]
          /\ UNCHANGED <<reopen, writer, gate_view, last_snap, retired, last_conn>>
       \/ /\ archive' = CorruptArchive      \* fails after File::create
          /\ ReturnDroppingWriteGuard(t, "Err")
          /\ UNCHANGED packed_view
       \/ /\ ReturnDroppingWriteGuard(t, "Err")   \* fails before File::create
          /\ UNCHANGED <<archive, packed_view>>
    /\ UNCHANGED <<lockq, readers, pool_closed, local,
                   wal, dbfile, images, last, held, mem_vars>>

(* if reopen { ... *pool_guard = pool; }  Ok(())                           *)
(* A mutant: the pool is reopened whatever the argument.                   *)
snap_reopen_always(t) ==
    /\ pc[t] = "reopen"
    /\ pool_closed' = FALSE
    /\ ReturnDroppingWriteGuard(t, "Ok")
    /\ UNCHANGED <<lockq, readers, local, wal, disk_vars, last, held, mem_vars>>

(* A mutant: Ok(()) without opening a new pool.                            *)
snap_reopen_never(t) ==
    /\ pc[t] = "reopen"
    /\ pool_closed' = pool_closed
    /\ ReturnDroppingWriteGuard(t, "Ok")
    /\ UNCHANGED <<lockq, readers, local, wal, disk_vars, last, held, mem_vars>>

snap_reopen(t) ==
    /\ pc[t] = "reopen"
    /\ \/ /\ reopen[t]
          /\ pool_closed' = FALSE
          /\ ReturnDroppingWriteGuard(t, "Ok")
       \/ /\ reopen[t]                 \* connect_with(connect_opts).await? fails
          /\ pool_closed' = pool_closed
          /\ ReturnDroppingWriteGuard(t, "Err")
       \/ /\ ~reopen[t]
          /\ pool_closed' = pool_closed
          /\ ReturnDroppingWriteGuard(t, "Ok")
    /\ UNCHANGED <<lockq, readers, local, wal, disk_vars, last, held, mem_vars>>

NextGate ==
    \E t \in GateTasks :
        \/ call_query(t)
        \/ conn_read(t)
        \/ conn_acquire(t)
        \/ gate_get_areas(t)
        \/ gate_add_area_store(t)
        \/ gate_add_area_insert(t)
        \/ \E id \in 1..GateMaxAreas : gate_delete(t, id)
        \/ conn_return(t)
        \/ \E r \in BOOLEAN : call_snapshot(t, r)
        \/ snap_write(t)
        \/ snap_checkpoint(t)
        \/ snap_close(t)
        \/ snap_pack(t)
        \/ snap_reopen(t)

SpecGate == InitGate /\ [][NextGate]_vars

-----------------------------------------------------------------------------
(* The schema's constraints, as SQLite enforces them on INSERT: a UNIQUE   *)
(* index is checked when the row is written, foreign keys after it.        *)

(* connect_opts.foreign_keys(true)                                         *)
foreign_keys_off == FALSE
foreign_keys == TRUE

area_exists(d, area_id) == \E a \in d.area : a.id = area_id

(* team_assignment(team_id, area_id) -> team, (address_id, area_id) -> address *)
fk_team_assignment(d, row) ==
    /\ \E t \in d.team : t.id = row.team_id /\ t.area_id = row.area_id
    /\ \E a \in d.address : a.id = row.address_id /\ a.area_id = row.area_id

(* team_assignment is unique per address_id                                *)
unique_team_assignment(d, row) ==
    ~ \E x \in d.team_assignment : x.address_id = row.address_id

check_team_assignment(d, row) ==
    IF ~unique_team_assignment(d, row) THEN "Unique"
    ELSE IF foreign_keys /\ ~fk_team_assignment(d, row) THEN "ForeignKey"
    ELSE "Ok"

(* A mutant: address.street_id -> street(id), whatever the street's area.  *)
fk_address_any_area(d, row) ==
    /\ area_exists(d, row.area_id)
    /\ IsSome(row.street_id) =>
          \E st \in d.street : st.id = Unwrap(row.street_id)

(* address.street_id -> street of the same area; *.area_id -> area         *)
fk_address(d, row) ==
    /\ area_exists(d, row.area_id)
    /\ IsSome(row.street_id) =>
          \E st \in d.street : st.id = Unwrap(row.street_id) /\ st.area_id = row.area_id

-----------------------------------------------------------------------------
(* ProjectDb and AreaDb (mod.rs).  Each operator is one repository call on *)
(* store d: [db |-> the store afterwards, res |-> "Ok" or the error,       *)
(* val |-> the value returned].                                            *)

(* A mutant: the row is inserted in the state after Imported.              *)
add_area_next_state(d, area, image_fname) ==
    LET d2 == sql_insert_area(d, area.name, Color_to_i64(area.color), image_fname,
                              Imported + 1)
    IN  [db |-> d2, res |-> "Ok", val |-> d2.seq.area]

(* AreaRepository::add_area, the INSERT                                    *)
add_area(d, area, image_fname) ==
    LET d2 == sql_insert_area(d, area.name, Color_to_i64(area.color), image_fname,
                              Imported)
    IN  [db |-> d2, res |-> "Ok", val |-> d2.seq.area]

(* AreaRepository::get_area_repo: fetch_one of the row's image_fname, then *)
(* load_area_image from the working directory's image directory.           *)
get_area_repo(d, imgs, id) ==
    LET rows == AreaRow(d, id)
    IN  IF rows = {} THEN [res |-> "RowNotFound", val |-> None]
        ELSE LET image_fname == (CHOOSE r \in rows : TRUE).image_fname
             IN  IF image_fname \notin imgs
                 THEN [res |-> "ImageError", val |-> None]
                 ELSE [res |-> "Ok", val |-> Some(id)]

(* A mutant: a missing row is an absent result, not an error.              *)
get_area_or_absent(d, area_id) ==
    LET rows == AreaRow(d, area_id)
    IN  IF rows = {} THEN [res |-> "Ok", val |-> None]
        ELSE [res |-> "Ok", val |-> Some(Area_of(CHOOSE r \in rows : TRUE))]

(* BoundAreaRepository::get_area, of the handle bound to area_id           *)
get_area(d, area_id) ==
    LET rows == AreaRow(d, area_id)
    IN  IF rows = {} THEN [res |-> "NotFound", val |-> None]
        ELSE LET record == CHOOSE r \in rows : TRUE
             IN  IF ~AreaState_try_from(record.state).ok
                 THEN [res |-> "InvalidAreaState", val |-> None]
                 ELSE [res |-> "Ok", val |-> Some(Area_of(record))]

(* AreaRepository::get_areas                                               *)
get_areas(d) ==
    IF \E r \in d.area : ~AreaState_try_from(r.state).ok
    THEN [res |-> "InvalidAreaState", val |-> <<>>]
    ELSE [res |-> "Ok", val |-> get_areas_of(d)]

(* BoundAreaRepository::delete, of the handle bound to area_id             *)
delete(d, area_id) == [db |-> sql_delete_area(d, area_id), res |-> "Ok", val |-> 0]

(* record.num as u16                                                       *)
U16_MODULUS == 65536

(* A mutant: the number follows the maximum over all Areas.                *)
add_team_global_max(d, area_id) ==
    LET nums == {t.num : t \in d.team}
        num  == IF nums = {} THEN 0
                ELSE (CHOOSE m \in nums : \A n \in nums : n <= m) + 1
        id   == d.seq.team + 1
    IN  [db |-> [d EXCEPT !.team = @ \cup {[id |-> id, area_id |-> area_id,
                                              num |-> num]},
                           !.seq.team = id],
         res |-> "Ok", val |-> id, number |-> num % U16_MODULUS]

(* TeamRepository::add_team: INSERT ... (SELECT COALESCE(MAX(num), -1) + 1 *)
(* FROM team WHERE area_id = $1) RETURNING id, num                         *)
add_team(d, area_id) ==
    LET nums == {t.num : t \in {x \in d.team : x.area_id = area_id}}
        num  == IF nums = {} THEN 0
                ELSE (CHOOSE m \in nums : \A n \in nums : n <= m) + 1
        id   == d.seq.team + 1
    IN  IF foreign_keys /\ ~area_exists(d, area_id)
        THEN [db |-> d, res |-> "ForeignKey", val |-> 0, number |-> 0]
        ELSE [db |-> [d EXCEPT !.team = @ \cup {[id |-> id, area_id |-> area_id,
                                                  num |-> num]},
                               !.seq.team = id],
              res |-> "Ok", val |-> id, number |-> num % U16_MODULUS]

(* TeamRepository::add_address: INSERT INTO team_assignment                *)
(* A mutant: INSERT OR REPLACE, the new row displaces the address's row.   *)
TeamRepository_add_address_replacing(d, area_id, team_id, address_id) ==
    LET row == [team_id |-> team_id, address_id |-> address_id, area_id |-> area_id]
        d0  == [d EXCEPT !.team_assignment = {x \in @ : x.address_id /= address_id}]
        c   == check_team_assignment(d0, row)
    IN  [db |-> IF c = "Ok" THEN [d0 EXCEPT !.team_assignment = @ \cup {row}] ELSE d,
         res |-> c, val |-> 0]

TeamRepository_add_address(d, area_id, team_id, address_id) ==
    LET row == [team_id |-> team_id, address_id |-> address_id, area_id |-> area_id]
        c   == check_team_assignment(d, row)
    IN  [db |-> IF c = "Ok" THEN [d EXCEPT !.team_assignment = @ \cup {row}] ELSE d,
         res |-> c, val |-> 0]

(* A mutant: DELETE FROM team_assignment WHERE address_id = $2 AND area_id *)
(* = $3, whatever the team.                                                *)
remove_address_any_team(d, area_id, team_id, address_id) ==
    [db |-> [d EXCEPT !.team_assignment =
                {x \in @ : ~(x.address_id = address_id /\ x.area_id = area_id)}],
     res |-> "Ok", val |-> 0]

(* TeamRepository::remove_address: DELETE FROM team_assignment WHERE ...   *)
remove_address(d, area_id, team_id, address_id) ==
    [db |-> [d EXCEPT !.team_assignment =
                {x \in @ : ~(x.team_id = team_id /\ x.address_id = address_id
                              /\ x.area_id = area_id)}],
     res |-> "Ok", val |-> 0]

(* COALESCE($n, column): the bound value unless it is NULL                 *)
COALESCE(o, column) == IF IsSome(o) THEN Unwrap(o) ELSE column

(* Ok(Address { .. }) built from a RETURNING record; the nullable columns  *)
(* estimated_flats and street_id stay Options, circle_radius is read as    *)
(* "circle_radius!: u32".                                                  *)
Address_of(record) ==
    [id |-> record.id, area_id |-> record.area_id,
     house_number |-> record.house_number,
     position |-> [x |-> record.x, y |-> record.y],
     confidence |-> record.confidence,
     verified |-> record.verified,
     estimated_flats |-> record.estimated_flats,
     assigned_street_id |-> record.street_id,
     circle_radius |-> Unwrap(record.circle_radius)]

(* AddressRepository::add_address: INSERT INTO address ... RETURNING ...   *)
AddressRepository_add_address(d, area_id, address) ==
    LET id  == d.seq.address + 1
        row == [id |-> id, area_id |-> area_id,
                house_number |-> address.house_number,
                x |-> address.position.x, y |-> address.position.y,
                confidence |-> address.confidence,
                verified |-> FALSE,
                estimated_flats |-> address.estimated_flats,
                circle_radius |-> Some(address.circle_radius),
                street_id |-> address.assigned_street_id]
    IN  IF foreign_keys /\ ~fk_address(d, row)
        THEN [db |-> d, res |-> "ForeignKey", val |-> None]
        ELSE [db |-> [d EXCEPT !.address = @ \cup {row}, !.seq.address = id],
              res |-> "Ok", val |-> Some(Address_of(row))]

(* AddressRepository::get_address_by_id: fetch_optional ... WHERE area_id  *)
(* = $1 AND id = $2                                                        *)
get_address_by_id(d, area_id, id) ==
    LET rows == {r \in d.address : r.area_id = area_id /\ r.id = id}
    IN  IF rows = {} THEN [res |-> "Ok", val |-> None]
        ELSE [res |-> "Ok", val |-> Some(Address_of(CHOOSE r \in rows : TRUE))]

(* AddressRepository::get_addresses: WHERE area_id = $1 ORDER BY id ASC    *)
get_addresses(d, area_id) ==
    LET rows == {r \in d.address : r.area_id = area_id}
        ids  == SortAsc({r.id : r \in rows})
    IN  [res |-> "Ok",
         val |-> [i \in DOMAIN ids |-> Address_of(CHOOSE r \in rows : r.id = ids[i])]]

(* Rows that go with an address row when it is deleted.                    *)
address_delete_cascade(d, id) ==
    [d EXCEPT !.team_assignment = {x \in @ : x.address_id /= id}]

(* A mutant: the DELETE matches no row.                                    *)
delete_address_noop(d, area_id, address_id) == [db |-> d, res |-> "Ok", val |-> 0]

(* AddressRepository::delete_address: DELETE FROM address WHERE id = $1    *)
(* AND area_id = $2                                                        *)
delete_address(d, area_id, address_id) ==
    IF \E r \in d.address : r.id = address_id /\ r.area_id = area_id
    THEN [db |-> [address_delete_cascade(d, address_id) EXCEPT
                     !.address = {r \in @ : r.id /= address_id}],
          res |-> "Ok", val |-> 0]
    ELSE [db |-> d, res |-> "Ok", val |-> 0]

(* AddressRepository::update_address.  `address` is the caller's &Address: *)
(* the statement is keyed by its id, and estimated_flats and street_id are *)
(* bound from it when the update does not name them.                       *)
update_address(d, area_id, address, update) ==
    LET estimated_flats ==
            IF IsSome(update.estimated_flats) THEN Unwrap(update.estimated_flats)
            ELSE address.estimated_flats
        assigned_street_id ==
            IF IsSome(update.street)
            THEN (IF IsSome(Unwrap(update.street))
                  THEN Some(Unwrap(Unwrap(update.street)).id) ELSE None)
            ELSE address.assigned_street_id
        x == IF IsSome(update.position) THEN Some(Unwrap(update.position).x) ELSE None
        y == IF IsSome(update.position) THEN Some(Unwrap(update.position).y) ELSE None
        rows == {r \in d.address : r.id = address.id /\ r.area_id = area_id}
    IN  IF rows = {} THEN [db |-> d, res |-> "RowNotFound", val |-> None]
        ELSE
        LET old == CHOOSE r \in rows : TRUE
            new == [old EXCEPT
                      !.house_number = COALESCE(update.house_number, @),
                      !.x = COALESCE(x, @),
                      !.y = COALESCE(y, @),
                      !.confidence = COALESCE(update.confidence, @),
                      !.verified = COALESCE(update.verified, @),
                      !.circle_radius =
                          IF IsSome(update.circle_radius) THEN update.circle_radius ELSE @,
                      !.estimated_flats = estimated_flats,
                      !.street_id = assigned_street_id]
        IN  IF foreign_keys /\ ~fk_address(d, new)
            THEN [db |-> d, res |-> "ForeignKey", val |-> None]
            ELSE [db |-> [d EXCEPT !.address = (@ \ {old}) \cup {new}],
                  res |-> "Ok", val |-> Some(Address_of(new))]

(* Ok(Street { .. }) built from a RETURNING record                         *)
Street_of(record) == [id |-> record.id, name |-> record.name, verified |-> record.verified]

(* StreetRepository::add_street: INSERT INTO street (area_id) VALUES ($1)  *)
add_street(d, area_id) ==
    LET id  == d.seq.street + 1
        row == [id |-> id, area_id |-> area_id, name |-> None, verified |-> FALSE]
    IN  IF foreign_keys /\ ~area_exists(d, area_id)
        THEN [db |-> d, res |-> "ForeignKey", val |-> None]
        ELSE [db |-> [d EXCEPT !.street = @ \cup {row}, !.seq.street = id],
              res |-> "Ok", val |-> Some(Street_of(row))]

(* StreetRepository::update_street                                         *)
update_street(d, area_id, street, update) ==
    LET rows == {r \in d.street : r.id = street.id /\ r.area_id = area_id}
    IN  IF rows = {} THEN [db |-> d, res |-> "RowNotFound", val |-> None]
        ELSE
        LET old == CHOOSE r \in rows : TRUE
            new == [old EXCEPT
                      !.name = IF IsSome(update.name) THEN update.name ELSE @,
                      !.verified = COALESCE(update.verified, @)]
        IN  [db |-> [d EXCEPT !.street = (@ \ {old}) \cup {new}],
             res |-> "Ok", val |-> Some(Street_of(new))]

(* A mutant: the DELETE matches no row.                                    *)
sql_delete_street_polyline_noop(d, street_id) == d

(* DELETE FROM street_polyline_vertices WHERE street_id = $1               *)
sql_delete_street_polyline(d, street_id) ==
    [d EXCEPT !.street_polyline_vertices = {x \in @ : x.street_id /= street_id}]

(* INSERT INTO street_polyline_vertices (street_id, position, x, y)        *)
sql_insert_street_vertex(d, street_id, position, point) ==
    LET row == [street_id |-> street_id, position |-> position,
                x |-> point.x, y |-> point.y]
    IN  IF foreign_keys /\ ~ \E st \in d.street : st.id = street_id
        THEN [db |-> d, res |-> "ForeignKey"]
        ELSE [db |-> [d EXCEPT !.street_polyline_vertices = @ \cup {row}], res |-> "Ok"]

(* DELETE FROM team_bounds_vertices WHERE team_id = $1                     *)
sql_delete_team_bounds(d, team_id) ==
    [d EXCEPT !.team_bounds_vertices = {x \in @ : x.team_id /= team_id}]

(* INSERT INTO team_bounds_vertices (team_id, position, x, y)              *)
sql_insert_team_vertex(d, team_id, position, point) ==
    LET row == [team_id |-> team_id, position |-> position,
                x |-> point.x, y |-> point.y]
    IN  IF foreign_keys /\ ~ \E tm \in d.team : tm.id = team_id
        THEN [db |-> d, res |-> "ForeignKey"]
        ELSE [db |-> [d EXCEPT !.team_bounds_vertices = @ \cup {row}], res |-> "Ok"]

(* SELECT position, x, y ... ORDER BY position ASC, collected into points  *)
PointsOf(rows) ==
    LET positions == SortAsc({r.position : r \in rows})
    IN  [i \in DOMAIN positions |->
            LET r == CHOOSE r \in rows : r.position = positions[i]
            IN  [x |-> r.x, y |-> r.y]]

(* StreetRepository::get_street_polyline                                   *)
get_street_polyline(d, street_id) ==
    LET records == {r \in d.street_polyline_vertices : r.street_id = street_id}
    IN  IF records = {} THEN None ELSE Some(PointsOf(records))

(* TeamRepository::get_team_bounds                                         *)
get_team_bounds(d, team_id) ==
    LET records == {r \in d.team_bounds_vertices : r.team_id = team_id}
    IN  IF records = {} THEN None ELSE Some(PointsOf(records))

(* make_test_address("42", 100, 200)                                       *)
TestAddress ==
    [house_number |-> "42", position |-> [x |-> 100, y |-> 200],
     confidence |-> "0.95", estimated_flats |-> Some(4), circle_radius |-> 10,
     assigned_street_id |-> None]

-----------------------------------------------------------------------------
(* Team assignment across two Areas.                                       *)
TeamMaxAreas == 2
TeamMaxTeams == 3
TeamMaxAddresses == 1

AreaNames == <<"Area 1", "Area 2", "Area 3", "Area 4">>
NewArea(i) == [name |-> AreaNames[i], color |-> IF i = 1 THEN TEST_RED ELSE TEST_BLUE]

Call(op, area_id, team_id, address_id, r) ==
    [op |-> op, area_id |-> area_id, team_id |-> team_id, address_id |-> address_id,
     res |-> r.res]

(* store_area_image, then the INSERT, then load_area_image                 *)
DoAddArea(max) ==
    /\ View.seq.area < max
    /\ LET r == add_area(View, NewArea(View.seq.area + 1), NewImageName)
       IN  /\ Commit(r.db)
           /\ images' = images \cup {NewImageName}
           /\ last' = Some(Call("add_area", r.val, 0, 0, r))
    /\ UNCHANGED <<held, mem_vars>>
    /\ RepoFrame

TeamAddArea == DoAddArea(TeamMaxAreas)

TeamAddTeam(h) ==
    /\ View.seq.team < TeamMaxTeams
    /\ LET r == add_team(View, h)
       IN  /\ Commit(r.db)
           /\ last' = Some(Call("add_team", h, r.val, 0, r) @@
                            [number |-> r.number])
    /\ UNCHANGED <<images, held, mem_vars>>
    /\ RepoFrame

TeamAddAddress(h) ==
    /\ View.seq.address < TeamMaxAddresses
    /\ LET r == AddressRepository_add_address(View, h, TestAddress)
       IN  /\ Commit(r.db)
           /\ last' = Some(Call("add_address", h, 0, View.seq.address + 1, r))
    /\ UNCHANGED <<images, held, mem_vars>>
    /\ RepoFrame

TeamAssign(h, team_id, address_id) ==
    /\ LET r == TeamRepository_add_address(View, h, team_id, address_id)
       IN  /\ Commit(r.db)
           /\ last' = Some(Call("assign", h, team_id, address_id, r))
    /\ UNCHANGED <<images, held, mem_vars>>
    /\ RepoFrame

TeamRemove(h, team_id, address_id) ==
    /\ LET r == remove_address(View, h, team_id, address_id)
       IN  /\ Commit(r.db)
           /\ last' = Some(Call("remove_address", h, team_id, address_id, r))
    /\ UNCHANGED <<images, held, mem_vars>>
    /\ RepoFrame

(* Handles, Teams and Addresses a caller can hold: those ever returned.    *)
Handles == 1..View.seq.area
TeamIds == 1..View.seq.team
AddressIds == 1..View.seq.address

NextTeam ==
    \/ TeamAddArea
    \/ \E h \in Handles : TeamAddTeam(h)
    \/ \E h \in Handles : TeamAddAddress(h)
    \/ \E h \in Handles, t \in TeamIds, a \in AddressIds : TeamAssign(h, t, a)
    \/ \E h \in Handles, t \in TeamIds, a \in AddressIds : TeamRemove(h, t, a)

SpecTeam == InitRepo /\ [][NextTeam]_vars

(* ProjectState::new on an existing project file: unpack it into a fresh   *)
(* working directory, check the layout, open the pool on project.db.       *)
(* A path with no file: the parent directory exists or not.  Archives     *)
(* unpacking to a partial layout: project.db without images/, or images/   *)
(* without project.db.                                                     *)
Absent(parent) == [kind |-> "absent", parent |-> parent]
DbOnlyArchive == [kind |-> "tar_db_only", db |-> EmptyDb, wal |-> NoWal]
ImagesOnlyArchive == [kind |-> "tar_images_only", images |-> {}]

(* db_file.is_file(), images_dir.is_dir() after archive.unpack             *)
Layout(a) ==
    CASE a.kind = "tar"             -> [db |-> TRUE, images |-> TRUE]
      [] a.kind = "tar_db_only"     -> [db |-> TRUE, images |-> FALSE]
      [] a.kind = "tar_images_only" -> [db |-> FALSE, images |-> TRUE]
      [] OTHER                      -> [db |-> FALSE, images |-> FALSE]

(* Mutants: no archive is created for an absent file; a partial layout is  *)
(* completed instead of refused.                                           *)
ProjectState_new_no_create(a) ==
    IF a.kind = "absent"
    THEN [ok |-> FALSE, err |-> "OpenFile", file |-> a, db |-> EmptyDb, images |-> {},
          db_exists |-> FALSE, images_exist |-> FALSE]
    ELSE [ok |-> a.kind /= "corrupt", err |-> IF a.kind = "corrupt" THEN "Unpack" ELSE "Ok",
          file |-> a,
          db |-> IF a.kind = "tar" THEN ViewOf(a.db, a.wal) ELSE EmptyDb,
          images |-> IF a.kind = "tar" THEN a.images ELSE {},
          db_exists |-> a.kind /= "corrupt", images_exist |-> a.kind /= "corrupt"]
ProjectState_new_lenient(a) ==
    LET file == IF a.kind = "absent" /\ a.parent THEN EmptyArchive ELSE a
        bad  == (a.kind = "absent" /\ ~a.parent) \/ file.kind = "corrupt"
    IN  [ok |-> ~bad, err |-> IF bad THEN "Setup" ELSE "Ok", file |-> file,
         db |-> IF file.kind = "tar" THEN ViewOf(file.db, file.wal) ELSE EmptyDb,
         images |-> IF file.kind = "tar" THEN file.images ELSE {},
         db_exists |-> ~bad, images_exist |-> ~bad]

ProjectState_new(a) ==
    LET file     == IF a.kind = "absent" /\ a.parent THEN EmptyArchive ELSE a
        unpacked == Layout(file)
        bail(e)  == [ok |-> FALSE, err |-> e, file |-> file, db |-> EmptyDb,
                     images |-> {}, db_exists |-> unpacked.db,
                     images_exist |-> unpacked.images]
    IN  CASE a.kind = "absent" /\ ~a.parent   -> bail("ParentMissing")
          [] file.kind = "corrupt"             -> bail("Unpack")
          [] unpacked.db /= unpacked.images    -> bail("CorruptProject")
          [] OTHER ->
               [ok |-> TRUE, err |-> "Ok", file |-> file,
                db |-> IF file.kind = "tar" THEN ViewOf(file.db, file.wal) ELSE EmptyDb,
                images |-> IF file.kind = "tar" THEN file.images ELSE {},
                db_exists |-> TRUE, images_exist |-> TRUE]

SnapshotRunning(t) == pc[t] \in {"checkpoint", "close", "pack", "reopen"}
SavedOk == Some([reopen |-> TRUE, res |-> "Ok"])
ConnReturns(t) == pc[t] = "acquire" /\ pc'[t] /= "acquire"

-----------------------------------------------------------------------------
(* C1: while internal_close_and_pack is between taking the write lock and  *)
(* returning, no DbConnGuard is live; and the pool is closed or swapped    *)
(* only while no DbConnGuard is live.                                      *)
C1_SnapshotExcludesGuards ==
    /\ [](\A s, t \in GateTasks : SnapshotRunning(s) => ~GuardLive(t))
    /\ [][pool_closed' /= pool_closed => \A t \in GateTasks : ~GuardLive(t)]_vars

(* A snapshot has closed the pool while a query waits for the read lock.   *)
C1_Witness ==
    \E s, t \in GateTasks :
        /\ pc[s] = "pack" /\ pool_closed
        /\ pc[t] = "read_wait"

(* C4: once save_project has returned Ok, opening the archive from scratch *)
(* yields exactly the store as committed when that snapshot took the       *)
(* exclusive gate (the same Areas in the same order, each with its image   *)
(* file), and nothing committed later.                                     *)
C4_ArchiveRoundTrip ==
    last_snap = SavedOk =>
        LET o == ProjectState_new(archive)
        IN  /\ o.ok
            /\ o.db = packed_view
            /\ get_areas_of(o.db) = get_areas_of(packed_view)
            /\ \A a \in o.db.area : a.image_fname \in o.images

(* A saved archive holds an Area that the live store has deleted since.    *)
C4_Witness ==
    /\ last_snap = SavedOk
    /\ \A t \in GateTasks : ~SnapshotRunning(t)
    /\ ProjectState_new(archive).db.area /= {}
    /\ View.area = {}

(* C8: when save_project returns Ok the pool is open again and the store   *)
(* reads what it read when the snapshot began; from then on conn()         *)
(* succeeds.                                                               *)
C8_ResumesService ==
    [][\A t \in GateTasks :
        /\ (pc[t] = "reopen" /\ pc'[t] = "idle" /\ last_snap' = SavedOk)
              => (~pool_closed' /\ View' = gate_view)
        /\ (last_snap = SavedOk /\ ConnReturns(t))
              => (last_conn' = "Ok" /\ GuardLive(t)')]_vars

(* conn() handed out a guard after a save_project that returned Ok.        *)
C8_Witness ==
    /\ last_snap = SavedOk
    /\ last_conn = "Ok"
    /\ \E t \in GateTasks : GuardLive(t)
    /\ View.area /= {}

(* C9: after internal_close_and_pack(false) has returned Ok the pool stays *)
(* closed, and every conn() returns an error without waiting for the pool. *)
C9_ClosedForGood ==
    /\ [](retired => pool_closed)
    /\ [](retired => \A t \in GateTasks : pc[t] = "acquire" => ENABLED conn_acquire(t))
    /\ [][\A t \in GateTasks :
            (retired /\ ConnReturns(t))
                => (last_conn' = "Err" /\ pc'[t] = "idle" /\ t \notin readers')]_vars

(* conn() returned an error after the reopen = false snapshot returned.    *)
C9_Witness ==
    /\ retired
    /\ last_snap = Some([reopen |-> FALSE, res |-> "Ok"])
    /\ last_conn = "Err"

-----------------------------------------------------------------------------
(* Partial updates of one Address and one Street.                          *)
UpdMaxAreas == 1
UpdMaxStreets == 1
UpdMaxAddresses == 1

(* AddressUpdate::default() and StreetUpdate::default()                    *)
AddressUpdate_default ==
    [house_number |-> None, position |-> None, confidence |-> None,
     verified |-> None, circle_radius |-> None, estimated_flats |-> None,
     street |-> None]
StreetUpdate_default == [name |-> None, verified |-> None]

(* The requests a caller can build against store d.                        *)
EstimatedFlatsUpdates == {None, Some(None), Some(Some(7))}
StreetRefUpdates(d) == {None, Some(None)} \cup {Some(Some(Street_of(st))) : st \in d.street}
AddressUpdates(d) ==
    [house_number : {None, Some("43")},
     position : {None, Some([x |-> 101, y |-> 201])},
     confidence : {None, Some("0.50")},
     verified : {None, Some(TRUE)},
     circle_radius : {None, Some(20)},
     estimated_flats : EstimatedFlatsUpdates,
     street : StreetRefUpdates(d)]
StreetUpdates == [name : {None, Some("Main Street")}, verified : {None, Some(TRUE)}]

(* AddressUpdate { <one field>, ..Default::default() }                     *)
AddressFields == DOMAIN AddressUpdate_default
Named(update) == {f \in DOMAIN update : IsSome(update[f])}
SingleFieldUpdates(d) == {u \in AddressUpdates(d) : Cardinality(Named(u)) <= 1}

(* What update_address reads of the &Address it is given.                  *)
HeldOf(address) ==
    [id |-> address.id, estimated_flats |-> address.estimated_flats,
     assigned_street_id |-> address.assigned_street_id]

UpdAddArea == DoAddArea(UpdMaxAreas)

UpdAddStreet(h) ==
    /\ View.seq.street < UpdMaxStreets
    /\ LET r == add_street(View, h)
       IN  /\ Commit(r.db)
           /\ last' = Some([op |-> "add_street", res |-> r.res])
    /\ UNCHANGED <<images, held, mem_vars>>
    /\ RepoFrame

UpdAddAddress(h) ==
    /\ View.seq.address < UpdMaxAddresses
    /\ LET r == AddressRepository_add_address(View, h, TestAddress)
       IN  /\ Commit(r.db)
           /\ last' = Some([op |-> "add_address", res |-> r.res])
           /\ held' = IF r.res = "Ok" THEN Some(HeldOf(Unwrap(r.val))) ELSE held
           /\ UNCHANGED mem_vars
    /\ UNCHANGED images
    /\ RepoFrame

(* update_address(&address, &update); the caller keeps the Address it had  *)
(* or replaces it by the one returned.                                     *)
UpdUpdateAddress(h, update, keep) ==
    /\ IsSome(held)
    /\ LET r == update_address(View, h, Unwrap(held), update)
       IN  /\ Commit(r.db)
           /\ last' = Some([op |-> "update_address", id |-> Unwrap(held).id,
                            update |-> update, res |-> r.res])
           /\ held' = IF r.res = "Ok" /\ ~keep THEN Some(HeldOf(Unwrap(r.val))) ELSE held
           /\ UNCHANGED mem_vars
    /\ UNCHANGED images
    /\ RepoFrame

UpdUpdateStreet(h, st, update) ==
    /\ LET r == update_street(View, h, Street_of(st), update)
       IN  /\ Commit(r.db)
           /\ last' = Some([op |-> "update_street", id |-> st.id,
                            update |-> update, res |-> r.res])
    /\ UNCHANGED <<images, held, mem_vars>>
    /\ RepoFrame

NextUpdate ==
    \/ UpdAddArea
    \/ \E h \in Handles : UpdAddStreet(h)
    \/ \E h \in Handles : UpdAddAddress(h)
    \/ \E h \in Handles, u \in SingleFieldUpdates(View), keep \in BOOLEAN :
          UpdUpdateAddress(h, u, keep)
    \/ \E h \in Handles, st \in View.street, u \in StreetUpdates :
          UpdUpdateStreet(h, st, u)

SpecUpdate == InitRepo /\ [][NextUpdate]_vars

-----------------------------------------------------------------------------
(* Replacing a street polyline or a team boundary while others read it.    *)
(* The project has one Area with one Street and one Team.                  *)
PolyMaxLen == 2

Path(n) == [i \in 1..n |-> [x |-> 10 * i, y |-> 20 * i]]
Reverse(s) == [i \in DOMAIN s |-> s[Len(s) + 1 - i]]
Polylines == {Path(n) : n \in 0..PolyMaxLen} \cup {Reverse(Path(PolyMaxLen))}

PolyProject ==
    LET a == add_area(EmptyDb, NewArea(1), 1)
        s == add_street(a.db, a.val)
    IN  add_team(s.db, a.val).db

InitPoly ==
    /\ dbfile = EmptyDb
    /\ wal = PolyProject
    /\ images = {1}
    /\ InitOpen
    /\ pc = [t \in GateTasks |-> "idle"]
    /\ reopen = [t \in GateTasks |-> FALSE]
    /\ local = [t \in GateTasks |-> 0]
    /\ last = None
    /\ held = None
    /\ InitMem

PolyFrame ==
    UNCHANGED <<reopen, last_conn, lockq, readers, writer, pool_closed, gate_view,
                last_snap, retired, dbfile, archive, packed_view, images, held, mem_vars>>

(* A transaction that has written holds SQLite's write lock until it ends. *)
InTx(t) == pc[t] = "tx_insert"
DbWriteLocked == \E t \in GateTasks : InTx(t)
Replacing(op, id) ==
    \E t \in GateTasks : InTx(t) /\ local[t].op = op /\ local[t].id = id

(* A mutant: no transaction, the DELETE is committed on its own.           *)
TxDelete_autocommit(t, op, id, points) ==
    /\ pc[t] = "idle"
    /\ ~DbWriteLocked
    /\ pc' = [pc EXCEPT ![t] = "tx_insert"]
    /\ LET d == IF op = "draw_street_polyline" THEN sql_delete_street_polyline(View, id)
                ELSE sql_delete_team_bounds(View, id)
       IN  /\ local' = [local EXCEPT ![t] =
                 [op |-> op, id |-> id, points |-> points, position |-> 0,
                  old |-> IF op = "draw_street_polyline"
                          THEN get_street_polyline(View, id)
                          ELSE get_team_bounds(View, id),
                  tx |-> d]]
           /\ Commit(d)
    /\ UNCHANGED last
    /\ PolyFrame

(* conn(), conn.begin() and the DELETE of the owner's vertices             *)
TxDelete(t, op, id, points) ==
    /\ pc[t] = "idle"
    /\ ~DbWriteLocked
    /\ pc' = [pc EXCEPT ![t] = "tx_insert"]
    /\ local' = [local EXCEPT ![t] =
          [op |-> op, id |-> id, points |-> points, position |-> 0,
           old |-> IF op = "draw_street_polyline" THEN get_street_polyline(View, id)
                   ELSE get_team_bounds(View, id),
           tx |-> IF op = "draw_street_polyline" THEN sql_delete_street_polyline(View, id)
                  ELSE sql_delete_team_bounds(View, id)]]
    /\ UNCHANGED <<wal, last>>
    /\ PolyFrame

(* The DELETE while another transaction holds the write lock: it waits for *)
(* the busy timeout, fails, and `?` drops the transaction.                 *)
TxBusy(t, op, id, points) ==
    /\ pc[t] = "idle"
    /\ DbWriteLocked
    /\ last' = Some([op |-> op, id |-> id, res |-> "Busy", val |-> None,
                     replacing |-> Replacing(op, id)])
    /\ UNCHANGED <<pc, local, wal>>
    /\ PolyFrame

(* One turn of `for (position, point) in polyline.iter().enumerate()`; a   *)
(* failed INSERT returns through `?` and the dropped transaction rolls     *)
(* back.                                                                   *)
TxInsert(t) ==
    /\ InTx(t)
    /\ local[t].position < Len(local[t].points)
    /\ LET f == local[t]
           r == IF f.op = "draw_street_polyline"
                THEN sql_insert_street_vertex(f.tx, f.id, f.position,
                                              f.points[f.position + 1])
                ELSE sql_insert_team_vertex(f.tx, f.id, f.position,
                                            f.points[f.position + 1])
       IN  IF r.res = "Ok"
           THEN /\ local' = [local EXCEPT ![t].tx = r.db, ![t].position = @ + 1]
                /\ UNCHANGED <<pc, last>>
           ELSE /\ pc' = [pc EXCEPT ![t] = "idle"]
                /\ local' = [local EXCEPT ![t] = 0]
                /\ last' = Some([op |-> f.op, id |-> f.id, res |-> r.res,
                                 val |-> None, replacing |-> FALSE])
    /\ UNCHANGED wal
    /\ PolyFrame

(* A mutant: the statements run so far stay committed when one fails.      *)
TxFail_keeps_partial(t) ==
    /\ InTx(t)
    /\ Commit(local[t].tx)
    /\ pc' = [pc EXCEPT ![t] = "idle"]
    /\ local' = [local EXCEPT ![t] = 0]
    /\ last' = Some([op |-> local[t].op, id |-> local[t].id, res |-> "Err",
                     val |-> None, replacing |-> FALSE,
                     position |-> local[t].position, old |-> local[t].old])
    /\ PolyFrame

(* An INSERT of the loop, or tx.commit(), fails (a rejected row, a full     *)
(* disk, an I/O error): `?` returns the error and the dropped Transaction   *)
(* rolls back.                                                              *)
TxFail(t) ==
    /\ InTx(t)
    /\ pc' = [pc EXCEPT ![t] = "idle"]
    /\ local' = [local EXCEPT ![t] = 0]
    /\ last' = Some([op |-> local[t].op, id |-> local[t].id, res |-> "Err",
                     val |-> None, replacing |-> FALSE,
                     position |-> local[t].position, old |-> local[t].old])
    /\ UNCHANGED wal
    /\ PolyFrame

(* tx.commit(), and the value returned                                     *)
TxCommit(t) ==
    /\ InTx(t)
    /\ local[t].position = Len(local[t].points)
    /\ Commit(local[t].tx)
    /\ pc' = [pc EXCEPT ![t] = "idle"]
    /\ local' = [local EXCEPT ![t] = 0]
    /\ last' = Some([op |-> local[t].op, id |-> local[t].id, res |-> "Ok",
                     val |-> IF local[t].op = "set_team_bounds"
                             THEN Some(local[t].points) ELSE None,
                     replacing |-> FALSE])
    /\ PolyFrame

(* get_street_polyline and get_team_bounds by a caller with no transaction *)
PolyGetStreetPolyline(t, id) ==
    /\ pc[t] = "idle"
    /\ last' = Some([op |-> "get_street_polyline", id |-> id, res |-> "Ok",
                     val |-> get_street_polyline(View, id),
                     replacing |-> Replacing("draw_street_polyline", id)])
    /\ UNCHANGED <<pc, local, wal>>
    /\ PolyFrame

PolyGetTeamBounds(t, id) ==
    /\ pc[t] = "idle"
    /\ last' = Some([op |-> "get_team_bounds", id |-> id, res |-> "Ok",
                     val |-> get_team_bounds(View, id),
                     replacing |-> Replacing("set_team_bounds", id)])
    /\ UNCHANGED <<pc, local, wal>>
    /\ PolyFrame

StreetIds == {st.id : st \in View.street}

NextPoly ==
    \/ \E t \in GateTasks, id \in StreetIds, p \in Polylines :
          TxDelete(t, "draw_street_polyline", id, p)
    \/ \E t \in GateTasks, id \in TeamIds, p \in Polylines :
          TxDelete(t, "set_team_bounds", id, p)
    \/ \E t \in GateTasks, id \in StreetIds, p \in Polylines :
          TxBusy(t, "draw_street_polyline", id, p)
    \/ \E t \in GateTasks, id \in TeamIds, p \in Polylines :
          TxBusy(t, "set_team_bounds", id, p)
    \/ \E t \in GateTasks : TxInsert(t)
    \/ \E t \in GateTasks : TxCommit(t)
    \/ \E t \in GateTasks : TxFail(t)
    \/ \E t \in GateTasks, id \in StreetIds : PolyGetStreetPolyline(t, id)
    \/ \E t \in GateTasks, id \in TeamIds : PolyGetTeamBounds(t, id)

SpecPoly == InitPoly /\ [][NextPoly]_vars

-----------------------------------------------------------------------------
(* Areas added, opened, read and deleted through a ProjectDb and the       *)
(* AreaDb handles it gave out.                                             *)
AreaMaxAreas == 3

AreaAddArea == DoAddArea(AreaMaxAreas)

(* Any handle still held may be the one consumed by delete().              *)
AreaDelete(h) ==
    /\ LET r == delete(View, h)
       IN  /\ Commit(r.db)
           /\ last' = Some([op |-> "delete", area_id |-> h, res |-> r.res,
                            val |-> None])
    /\ UNCHANGED <<images, held, mem_vars>>
    /\ RepoFrame

AreaGetAreas ==
    /\ last' = Some([op |-> "get_areas", area_id |-> 0, res |-> get_areas(View).res,
                     val |-> get_areas(View).val])
    /\ UNCHANGED <<wal, images, held, mem_vars>>
    /\ RepoFrame

AreaGetAreaRepo(id) ==
    /\ LET r == get_area_repo(View, images, id)
       IN  last' = Some([op |-> "get_area_repo", area_id |-> id, res |-> r.res,
                         val |-> r.val])
    /\ UNCHANGED <<wal, images, held, mem_vars>>
    /\ RepoFrame

AreaGetArea(h) ==
    /\ LET r == get_area(View, h)
       IN  last' = Some([op |-> "get_area", area_id |-> h, res |-> r.res,
                         val |-> r.val])
    /\ UNCHANGED <<wal, images, held, mem_vars>>
    /\ RepoFrame

NextArea ==
    \/ AreaAddArea
    \/ \E h \in Handles : AreaDelete(h)
    \/ AreaGetAreas
    \/ \E id \in 1..AreaMaxAreas : AreaGetAreaRepo(id)
    \/ \E h \in Handles : AreaGetArea(h)

SpecArea == InitRepo /\ [][NextArea]_vars

-----------------------------------------------------------------------------
(* Team assignment constraints.                                            *)
AssignStep == IsSome(last') /\ Unwrap(last').op = "assign"
TeamArea(d, team_id) == (CHOOSE t \in d.team : t.id = team_id).area_id
AddressArea(d, address_id) == (CHOOSE a \in d.address : a.id = address_id).area_id
AssignmentsOf(d, address_id) == {x \in d.team_assignment : x.address_id = address_id}
CrossArea(d, c) == TeamArea(d, c.team_id) /= AddressArea(d, c.address_id)
SameArea(d, c) ==
    /\ TeamArea(d, c.team_id) = c.area_id
    /\ AddressArea(d, c.address_id) = c.area_id

(* C2: whatever assign and remove_address calls have run, every Address    *)
(* has at most one team_assignment row; and assigning an Address that is   *)
(* assigned to team T1 to another team T2 of the same Area returns a       *)
(* uniqueness error and leaves the row for T1 as the Address's only row.   *)
C2_OneTeamPerAddress ==
    /\ [](\A a \in AddressIds : Cardinality(AssignmentsOf(View, a)) <= 1)
    /\ [][(/\ AssignStep
           /\ SameArea(View, Unwrap(last'))
           /\ \E x \in AssignmentsOf(View, Unwrap(last').address_id) :
                  x.team_id /= Unwrap(last').team_id)
          => /\ Unwrap(last').res = "Unique"
             /\ View'.team_assignment = View.team_assignment]_vars

C2_Witness ==
    /\ IsSome(last)
    /\ Unwrap(last).op = "assign"
    /\ Unwrap(last).res = "Unique"
    /\ SameArea(View, Unwrap(last))
    /\ \E x \in AssignmentsOf(View, Unwrap(last).address_id) :
           x.team_id /= Unwrap(last).team_id

-----------------------------------------------------------------------------
(* Partial updates.                                                        *)
UpdateAddressStep ==
    /\ IsSome(last')
    /\ Unwrap(last').op = "update_address"
    /\ Unwrap(last').res = "Ok"
AddressRowOf(d, id) == CHOOSE r \in d.address : r.id = id
StreetRowOf(d, id) == CHOOSE r \in d.street : r.id = id

(* The columns an AddressUpdate field stands for.                          *)
ColumnsOf(f) ==
    CASE f = "position" -> {"x", "y"}
      [] f = "street" -> {"street_id"}
      [] OTHER -> {f}

(* C5: update_address changes only the named fields: every column of the   *)
(* stored row whose field the AddressUpdate leaves unspecified has, after  *)
(* the update, the value stored immediately before it, whatever Address    *)
(* the caller passed and whatever updates ran earlier.                     *)
C5_UpdateChangesOnlyNamed ==
    [][UpdateAddressStep =>
          LET id  == Unwrap(last').id
              old == AddressRowOf(View, id)
              new == AddressRowOf(View', id)
          IN  \A f \in AddressFields \ Named(Unwrap(last').update) :
                  \A c \in ColumnsOf(f) : new[c] = old[c]]_vars

(* The stored row of address a after update_address(&a, &u) with the       *)
(* Address just fetched, and of street st after update_street(&st, &u).    *)
AfterUpdateAddress(d, a, u) ==
    AddressRowOf(update_address(d, a.area_id, Address_of(a), u).db, a.id)
AfterUpdateStreet(d, st, u) ==
    StreetRowOf(update_street(d, st.area_id, Street_of(st), u).db, st.id)

(* C6: for each nullable field an update request reaches (Street name,     *)
(* Address estimated_flats, circle radius, assigned street) and whatever   *)
(* the request says about the other fields, some request leaves the field  *)
(* as stored, some request sets it to null and some sets it to a value.    *)
C6_ThreeOutcomes ==
    /\ \A st \in View.street : \A u \in StreetUpdates :
          {st.name, None, Some("Main Street")} \subseteq
              {AfterUpdateStreet(View, st, [u EXCEPT !.name = n]).name :
                  n \in {None, Some("Main Street")}}
    /\ \A a \in View.address : \A u \in AddressUpdates(View) :
          /\ {a.estimated_flats, None, Some(7)} \subseteq
                {AfterUpdateAddress(View, a, [u EXCEPT !.estimated_flats = v]).estimated_flats :
                    v \in EstimatedFlatsUpdates}
          /\ ({a.street_id, None} \cup {Some(st.id) : st \in View.street}) \subseteq
                {AfterUpdateAddress(View, a, [u EXCEPT !.street = v]).street_id :
                    v \in StreetRefUpdates(View)}
          /\ {a.circle_radius, None, Some(20)} \subseteq
                {AfterUpdateAddress(View, a, [u EXCEPT !.circle_radius = v]).circle_radius :
                    v \in {None, Some(20)}}

-----------------------------------------------------------------------------
(* Vertex replacement and its readers.                                     *)
IsRead(c) == c.op \in {"get_street_polyline", "get_team_bounds"}
OptPolylines == {None} \cup {Some(p) : p \in Polylines \ {<<>>}}

(* C7: replacing a polyline or a boundary is atomic for its readers.       *)
(* While a replacement of an owner's vertices is under way the committed   *)
(* list of that owner is still the complete previous one; the committed    *)
(* list of an owner changes only in the step that commits a replacement,   *)
(* and then to the complete new list; and every read returns the committed *)
(* list, complete: never a partially inserted one, and never an empty one  *)
(* unless the previous or the new list is empty.                           *)
C7_AtomicReplacement ==
    /\ [](\A t \in GateTasks : InTx(t) =>
             IF local[t].op = "draw_street_polyline"
             THEN get_street_polyline(View, local[t].id) = local[t].old
             ELSE get_team_bounds(View, local[t].id) = local[t].old)
    /\ [][/\ \A id \in StreetIds :
                get_street_polyline(View', id) /= get_street_polyline(View, id) =>
                   \E t \in GateTasks :
                      /\ InTx(t) /\ ~InTx(t)'
                      /\ local[t].op = "draw_street_polyline" /\ local[t].id = id
                      /\ PointsOf({r \in View'.street_polyline_vertices :
                                      r.street_id = id}) = local[t].points
          /\ \A id \in TeamIds :
                get_team_bounds(View', id) /= get_team_bounds(View, id) =>
                   \E t \in GateTasks :
                      /\ InTx(t) /\ ~InTx(t)'
                      /\ local[t].op = "set_team_bounds" /\ local[t].id = id
                      /\ PointsOf({r \in View'.team_bounds_vertices :
                                      r.team_id = id}) = local[t].points]_vars
    /\ [][(IsSome(last') /\ IsRead(Unwrap(last')) /\ last' /= last) =>
             LET c == Unwrap(last')
                 stored == IF c.op = "get_street_polyline"
                           THEN get_street_polyline(View, c.id)
                           ELSE get_team_bounds(View, c.id)
             IN  /\ c.val = stored
                 /\ c.val \in OptPolylines
                 /\ c.replacing =>
                       \E t \in GateTasks : InTx(t) /\ c.val = local[t].old]_vars

(* A read that ran between the DELETE and the commit of a replacement of a *)
(* non-empty list by another non-empty one, part of it inserted.           *)
C7_Witness ==
    /\ IsSome(last)
    /\ IsRead(Unwrap(last))
    /\ Unwrap(last).replacing
    /\ \E t \in GateTasks :
          /\ InTx(t)
          /\ local[t].id = Unwrap(last).id
          /\ local[t].op = (IF Unwrap(last).op = "get_street_polyline"
                            THEN "draw_street_polyline" ELSE "set_team_bounds")
          /\ IsSome(local[t].old)
          /\ Unwrap(last).val = local[t].old
          /\ local[t].points /= Unwrap(local[t].old)
          /\ local[t].position > 0
          /\ local[t].position < Len(local[t].points)

-----------------------------------------------------------------------------
(* Deleted Areas.                                                          *)
Deleted(d, id) == id \in 1..d.seq.area /\ AreaRow(d, id) = {}
Listed(d, id) == \E i \in DOMAIN get_areas(d).val : get_areas(d).val[i].id = id

(* C10: deleting an Area removes it from get_areas(), and from then on the *)
(* Area is an error, not an empty result: get_area_repo(id) returns an     *)
(* error and get_area() on any handle still bound to the id returns an     *)
(* error.                                                                  *)
C10_DeletedAreaIsError ==
    /\ [](\A id \in Handles : Deleted(View, id) =>
             /\ ~Listed(View, id)
             /\ get_area_repo(View, images, id).res /= "Ok"
             /\ get_area(View, id).res /= "Ok")
    /\ [][/\ (IsSome(last') /\ Unwrap(last').op = "delete" /\ Unwrap(last').res = "Ok")
             => Deleted(View', Unwrap(last').area_id)
          /\ \A id \in Handles : Deleted(View, id) => Deleted(View', id)
          /\ (/\ IsSome(last')
              /\ Unwrap(last').op \in {"get_area_repo", "get_area"}
              /\ Deleted(View, Unwrap(last').area_id))
             => /\ Unwrap(last').res /= "Ok"
                /\ Unwrap(last').val = None]_vars

(* get_area() on a handle of a deleted Area has failed while another Area  *)
(* is still listed.                                                        *)
C10_Witness ==
    /\ IsSome(last)
    /\ Unwrap(last).op = "get_area"
    /\ Deleted(View, Unwrap(last).area_id)
    /\ Unwrap(last).res = "NotFound"
    /\ \E id \in Handles : Listed(View, id)

-----------------------------------------------------------------------------
(* Areas as created.                                                       *)
AddAreaStep ==
    /\ IsSome(last')
    /\ Unwrap(last').op = "add_area"
    /\ Unwrap(last').res = "Ok"
AreaIds(d) == {x.id : x \in d.area}
ListedIds(d) == {get_areas(d).val[i].id : i \in DOMAIN get_areas(d).val}
StrictlyAscending(s) == \A i, j \in DOMAIN s : i < j => s[i].id < s[j].id

(* C11: after every add_area that succeeds, get_area() on the returned     *)
(* handle gives state Imported and the supplied name and color, and        *)
(* get_areas() lists the new Area and every Area added before and not      *)
(* deleted, in strictly ascending id order.                                *)
C11_AddedAreaReadBack ==
    /\ [][AddAreaStep =>
             LET id       == Unwrap(last').area_id
                 supplied == NewArea(View.seq.area + 1)
                 read     == get_area(View', id)
             IN  /\ read.res = "Ok"
                 /\ Unwrap(read.val).state = Imported
                 /\ Unwrap(read.val).name = supplied.name
                 /\ Unwrap(read.val).color = supplied.color
                 /\ Unwrap(read.val).id = id
                 /\ id \notin AreaIds(View)
                 /\ ListedIds(View') = AreaIds(View) \cup {id}]_vars
    /\ [](/\ get_areas(View).res = "Ok"
          /\ StrictlyAscending(get_areas(View).val)
          /\ Len(get_areas(View).val) = Cardinality(View.area))

(* A third Area has just been added after one of the first two was deleted. *)
C11_Witness ==
    /\ IsSome(last)
    /\ Unwrap(last).op = "add_area"
    /\ Unwrap(last).res = "Ok"
    /\ Len(get_areas(View).val) = 2
    /\ \E id \in Handles : Deleted(View, id)
    /\ Unwrap(get_area(View, Unwrap(last).area_id).val).color = TEST_BLUE

-----------------------------------------------------------------------------
(* Addresses of a project with two Areas, each with one Street.            *)
AddrMaxAddresses == 1

AddrProject ==
    LET a1 == add_area(EmptyDb, NewArea(1), 1)
        a2 == add_area(a1.db, NewArea(2), 2)
        s1 == add_street(a2.db, a1.val)
    IN  add_street(s1.db, a2.val).db

InitAddr ==
    /\ dbfile = EmptyDb
    /\ wal = AddrProject
    /\ images = {1, 2}
    /\ InitOpen
    /\ pc = [t \in GateTasks |-> "idle"]
    /\ reopen = [t \in GateTasks |-> FALSE]
    /\ local = [t \in GateTasks |-> 0]
    /\ last = None
    /\ held = None
    /\ InitMem

(* make_test_address(..) with estimated_flats and assigned_street_id set   *)
(* by the caller; the street may be any Street the caller holds.           *)
NewAddresses(d) ==
    {[TestAddress EXCEPT !.estimated_flats = e, !.assigned_street_id = s] :
        e \in {None, Some(4)},
        s \in {None} \cup {Some(st.id) : st \in d.street}}

AddrAdd(h, address) ==
    /\ View.seq.address < AddrMaxAddresses
    /\ LET r == AddressRepository_add_address(View, h, address)
       IN  /\ Commit(r.db)
           /\ last' = Some([op |-> "add_address", area_id |-> h, arg |-> address,
                            res |-> r.res, val |-> r.val])
    /\ UNCHANGED <<images, held, mem_vars>>
    /\ RepoFrame

AddrGetById(h, id) ==
    /\ LET r == get_address_by_id(View, h, id)
       IN  last' = Some([op |-> "get_address_by_id", area_id |-> h, arg |-> id,
                         res |-> r.res, val |-> r.val])
    /\ UNCHANGED <<wal, images, held, mem_vars>>
    /\ RepoFrame

AddrGetAll(h) ==
    /\ LET r == get_addresses(View, h)
       IN  last' = Some([op |-> "get_addresses", area_id |-> h, arg |-> 0,
                         res |-> r.res, val |-> r.val])
    /\ UNCHANGED <<wal, images, held, mem_vars>>
    /\ RepoFrame

(* delete_address(address) with any Address the caller holds, through any *)
(* handle                                                                  *)
AddrDelete(h, id) ==
    /\ LET r == delete_address(View, h, id)
       IN  /\ Commit(r.db)
           /\ last' = Some([op |-> "delete_address", area_id |-> h, arg |-> id,
                            res |-> r.res, val |-> None])
    /\ UNCHANGED <<images, held, mem_vars>>
    /\ RepoFrame

(* update_address(&address, &AddressUpdate { street, ..Default::default() }) *)
(* with an Address fetched through its own handle, through any handle      *)
AddrUpdateStreet(h, id, street) ==
    /\ \E r \in View.address : r.id = id
    /\ LET address == Address_of(AddressRowOf(View, id))
           update  == [AddressUpdate_default EXCEPT !.street = street]
           r       == update_address(View, h, address, update)
       IN  /\ Commit(r.db)
           /\ last' = Some([op |-> "update_address", area_id |-> h, arg |-> update,
                            res |-> r.res, val |-> r.val])
    /\ UNCHANGED <<images, held, mem_vars>>
    /\ RepoFrame

NextAddr ==
    \/ \E h \in Handles, f \in NewAddresses(View) : AddrAdd(h, f)
    \/ \E h \in Handles, id \in 1..(AddrMaxAddresses + 1) : AddrGetById(h, id)
    \/ \E h \in Handles : AddrGetAll(h)
    \/ \E h \in Handles, id \in AddressIds : AddrDelete(h, id)
    \/ \E h \in Handles, id \in AddressIds, s \in StreetRefUpdates(View) :
          AddrUpdateStreet(h, id, s)

SpecAddr == InitAddr /\ [][NextAddr]_vars

-----------------------------------------------------------------------------
(* Address round trip.                                                     *)
LastIs(c, op) == IsSome(c) /\ Unwrap(c).op = op
MatchesNew(a, f) ==
    /\ a.house_number = f.house_number
    /\ a.position = f.position
    /\ a.confidence = f.confidence
    /\ a.estimated_flats = f.estimated_flats
    /\ a.circle_radius = f.circle_radius
    /\ a.assigned_street_id = f.assigned_street_id
    /\ a.verified = FALSE
ListsAddress(d, h, id) ==
    \E i \in DOMAIN get_addresses(d, h).val : get_addresses(d, h).val[i].id = id

(* C12: an Address added with fields F and fetched by the returned id      *)
(* through the same handle equals F on house number, position, confidence, *)
(* estimated flats, circle radius and assigned street, and is unverified;  *)
(* after delete_address the lookup returns None and get_addresses does not *)
(* list the Address.                                                       *)
C12_AddressRoundTrip ==
    [][/\ (LastIs(last', "add_address") /\ Unwrap(last').res = "Ok") =>
             LET c == Unwrap(last')
                 g == get_address_by_id(View', c.area_id, Unwrap(c.val).id)
             IN  /\ g.res = "Ok"
                 /\ IsSome(g.val)
                 /\ Unwrap(g.val) = Unwrap(c.val)
                 /\ MatchesNew(Unwrap(g.val), c.arg)
                 /\ ListsAddress(View', c.area_id, Unwrap(c.val).id)
       /\ (LastIs(last', "delete_address") /\ Unwrap(last').res = "Ok") =>
             LET c == Unwrap(last')
             IN  /\ get_address_by_id(View', c.area_id, c.arg) = [res |-> "Ok", val |-> None]
                 /\ ~ListsAddress(View', c.area_id, c.arg)
       /\ \A id \in AddressIds : \A h \in Handles :
             (get_address_by_id(View, h, id).val = None /\ ~LastIs(last', "add_address"))
                => get_address_by_id(View', h, id).val = None]_vars

(* An Address with a street and an estimate was added and read back.       *)
C12_Witness ==
    /\ LastIs(last, "get_address_by_id")
    /\ IsSome(Unwrap(last).val)
    /\ Unwrap(Unwrap(last).val).estimated_flats = Some(4)
    /\ IsSome(Unwrap(Unwrap(last).val).assigned_street_id)
    /\ Unwrap(Unwrap(last).val).area_id = 2

-----------------------------------------------------------------------------
(* Opening a project file, working on it, saving and dropping it.          *)
OpenMaxAreas == 2

(* What may lie at the path before the first open.                         *)
OneAreaDb == add_area(EmptyDb, NewArea(1), 1).db
InitArchives ==
    {Absent(TRUE), Absent(FALSE), EmptyArchive, CorruptArchive, DbOnlyArchive,
     ImagesOnlyArchive,
     [kind |-> "tar", db |-> EmptyDb, wal |-> NoWal, images |-> {}],
     [kind |-> "tar", db |-> OneAreaDb, wal |-> NoWal, images |-> {1}]}

InitClosed ==
    /\ archive \in InitArchives
    /\ dbfile = EmptyDb
    /\ wal = NoWal
    /\ images = {}
    /\ pool_closed = TRUE
    /\ packed_view = EmptyDb
    /\ gate_view = EmptyDb
    /\ lockq = <<>>
    /\ readers = {}
    /\ writer = NoTask
    /\ last_snap = None
    /\ last_conn = "none"
    /\ retired = FALSE
    /\ pc = [t \in GateTasks |-> "idle"]
    /\ reopen = [t \in GateTasks |-> FALSE]
    /\ local = [t \in GateTasks |-> 0]
    /\ last = None
    /\ held = None
    /\ InitMem

OpenFrame ==
    UNCHANGED <<pc, reopen, last_conn, lockq, readers, writer, gate_view, local,
                retired, held, mem_vars>>

(* ProjectDb::new(path)                                                    *)
OpenNew ==
    /\ pool_closed
    /\ LET r == ProjectState_new(archive)
       IN  /\ archive' = r.file
           /\ last' = Some([op |-> "open", arg |-> archive, res |-> r.err,
                            val |-> [db_exists |-> r.db_exists,
                                     images_exist |-> r.images_exist]])
           /\ IF r.ok
              THEN /\ dbfile' = r.db
                   /\ wal' = NoWal
                   /\ images' = r.images
                   /\ pool_closed' = FALSE
              ELSE UNCHANGED <<dbfile, wal, images, pool_closed>>
    /\ UNCHANGED <<packed_view, last_snap>>
    /\ OpenFrame

OpenGetAreas ==
    /\ ~pool_closed
    /\ last' = Some([op |-> "get_areas", arg |-> 0, res |-> get_areas(View).res,
                     val |-> get_areas(View).val])
    /\ UNCHANGED <<archive, dbfile, wal, images, pool_closed, packed_view, last_snap>>
    /\ OpenFrame

OpenAddArea ==
    /\ ~pool_closed
    /\ DoAddArea(OpenMaxAreas)

OpenDeleteArea(h) ==
    /\ ~pool_closed
    /\ AreaDelete(h)

(* save_project() with no other caller: checkpoint, close, pack, reopen    *)
OpenSave ==
    /\ ~pool_closed
    /\ dbfile' = View
    /\ wal' = NoWal
    /\ archive' = [kind |-> "tar", db |-> View, wal |-> NoWal, images |-> images]
    /\ packed_view' = View
    /\ last_snap' = SavedOk
    /\ last' = Some([op |-> "save_project", arg |-> 0, res |-> "Ok", val |-> 0])
    /\ UNCHANGED <<images, pool_closed>>
    /\ OpenFrame

(* How the teardown can end once it got past Handle::try_current(): Ok, or *)
(* Runtime::new() fails, or internal_close_and_pack(false) fails at the    *)
(* checkpoint, in save_tar_zstd before File::create or after it.           *)
DropOutcomes == {"Ok", "RuntimeNew", "Checkpoint", "PackBeforeCreate", "PackAfterCreate"}

(* A mutant: the teardown snapshots whether or not a runtime is current.   *)
drop_attempts_save_always(in_runtime) == TRUE

(* if let Ok(handle) = Handle::try_current() { .. Ok(()) } else { .. }     *)
drop_attempts_save(in_runtime) == ~in_runtime

(* The ProjectDb is dropped.  Inside a runtime Drop saves nothing; outside *)
(* one it runs internal_close_and_pack(false) in a runtime of its own.  An *)
(* Err is printed (logged) and drop returns.  The TempDir goes with it.    *)
OpenDrop(in_runtime, outcome) ==
    /\ ~pool_closed
    /\ pool_closed' = TRUE
    /\ IF ~drop_attempts_save(in_runtime)
       THEN /\ outcome = "Ok"
            /\ UNCHANGED <<archive, packed_view, last_snap>>
       ELSE CASE outcome = "Ok" ->
                    /\ archive' = [kind |-> "tar", db |-> View, wal |-> NoWal,
                                   images |-> images]
                    /\ packed_view' = View
                    /\ last_snap' = Some([reopen |-> FALSE, res |-> "Ok"])
              [] outcome = "RuntimeNew" ->
                    UNCHANGED <<archive, packed_view, last_snap>>
              [] outcome \in {"Checkpoint", "PackBeforeCreate"} ->
                    /\ last_snap' = Some([reopen |-> FALSE, res |-> "Err"])
                    /\ UNCHANGED <<archive, packed_view>>
              [] outcome = "PackAfterCreate" ->
                    /\ archive' = CorruptArchive
                    /\ last_snap' = Some([reopen |-> FALSE, res |-> "Err"])
                    /\ UNCHANGED packed_view
    /\ dbfile' = EmptyDb
    /\ wal' = NoWal
    /\ images' = {}
    /\ last' = Some([op |-> "drop", arg |-> in_runtime, res |-> "Ok", val |-> 0,
                     logged |-> outcome, store |-> View])
    /\ OpenFrame

NextOpen ==
    \/ OpenNew
    \/ OpenGetAreas
    \/ OpenAddArea
    \/ \E h \in Handles : OpenDeleteArea(h)
    \/ OpenSave
    \/ \E in_runtime \in BOOLEAN, outcome \in DropOutcomes : OpenDrop(in_runtime, outcome)

SpecOpen == InitClosed /\ [][NextOpen]_vars

C14_LayoutBothOrNeither ==
    [][(LastIs(last', "open") /\ pool_closed /\ archive' /= CorruptArchive
        /\ archive'.kind /= "absent") =>
          LET unpacked == Layout(archive')
          IN  /\ (Unwrap(last').res = "Ok") <=> (unpacked.db <=> unpacked.images)
              /\ (unpacked.db /= unpacked.images) =>
                    /\ Unwrap(last').res = "CorruptProject"
                    /\ pool_closed'
                    /\ UNCHANGED <<dbfile, wal, images>>
              /\ (~unpacked.db /\ ~unpacked.images) =>
                    /\ ~pool_closed'
                    /\ Unwrap(last').val = [db_exists |-> TRUE, images_exist |-> TRUE]
                    /\ View' = EmptyDb /\ images' = {}
              /\ (unpacked.db /\ unpacked.images) =>
                    /\ ~pool_closed'
                    /\ View' = ViewOf(archive.db, archive.wal)]_vars

(* An archive holding only project.db was refused.                         *)
C14_Witness ==
    /\ LastIs(last, "open")
    /\ Unwrap(last).res = "CorruptProject"
    /\ archive = DbOnlyArchive
    /\ pool_closed


-----------------------------------------------------------------------------
(* Team numbering.                                                         *)
AddTeamStep == IsSome(last') /\ Unwrap(last').op = "add_team"
TeamNums(d, area_id) == {t.num : t \in {x \in d.team : x.area_id = area_id}}
MaxNum(nums) == CHOOSE m \in nums : \A n \in nums : n <= m
NextNum(d, area_id) ==
    IF TeamNums(d, area_id) = {} THEN 0 ELSE MaxNum(TeamNums(d, area_id)) + 1
TeamsOutside(d, area_id) == {t \in d.team : t.area_id /= area_id}

(* C15: whatever add_team calls have run on whatever Areas, no two Teams   *)
(* of one Area carry the same number; and every add_team call on an Area   *)
(* stores and returns a Team whose number is that Area's maximum number    *)
(* before the call plus one (0 for the Area's first Team), whatever the    *)
(* Teams of the other Areas are, and leaves those Teams as they were.      *)
C15_TeamNumbersPerArea ==
    /\ [](\A t1 \in View.team : \A t2 \in View.team :
              (t1.area_id = t2.area_id /\ t1.num = t2.num) => t1.id = t2.id)
    /\ [][AddTeamStep =>
          LET c == Unwrap(last')
              new == View'.team \ View.team
          IN  /\ c.res = "Ok"
              /\ new = {[id |-> c.team_id, area_id |-> c.area_id,
                         num |-> NextNum(View, c.area_id)]}
              /\ c.number = NextNum(View, c.area_id)
              /\ TeamsOutside(View', c.area_id) = TeamsOutside(View, c.area_id)]_vars

(* An Area's second Team has just been added and got number 1 while        *)
(* another Area holds a Team numbered 0; three Teams exist.                *)
C15_Witness ==
    /\ IsSome(last)
    /\ Unwrap(last).op = "add_team"
    /\ Unwrap(last).number = 1
    /\ \E t \in View.team : t.area_id /= Unwrap(last).area_id /\ t.num = 0
    /\ Cardinality(View.team) = 3


-----------------------------------------------------------------------------
(* Street references of addresses.                                         *)
StreetArea(d, street_id) == (CHOOSE st \in d.street : st.id = street_id).area_id
(* the Street a call names: add_address's assigned_street_id, or the       *)
(* street of update_address's AddressUpdate                                *)
NamedStreet(c) ==
    IF c.op = "add_address" THEN c.arg.assigned_street_id
    ELSE IF c.op = "update_address" /\ IsSome(c.arg.street)
         THEN (IF IsSome(Unwrap(c.arg.street))
               THEN Some(Unwrap(Unwrap(c.arg.street)).id) ELSE None)
    ELSE None
CrossAreaStreet(d, c) ==
    /\ IsSome(NamedStreet(c))
    /\ StreetArea(d, Unwrap(NamedStreet(c))) /= c.area_id

-----------------------------------------------------------------------------
(* Polylines and boundaries written and read through the handles of two    *)
(* Areas, one caller at a time.                                            *)

(* for (position, point) in polyline.iter().enumerate() { INSERT ... }     *)
RECURSIVE insert_street_vertices(_, _, _, _)
insert_street_vertices(d, street_id, polyline, position) ==
    IF position = Len(polyline) THEN [db |-> d, res |-> "Ok"]
    ELSE LET r == sql_insert_street_vertex(d, street_id, position, polyline[position + 1])
         IN  IF r.res = "Ok"
             THEN insert_street_vertices(r.db, street_id, polyline, position + 1)
             ELSE r

RECURSIVE insert_team_vertices(_, _, _, _)
insert_team_vertices(d, team_id, bounds, position) ==
    IF position = Len(bounds) THEN [db |-> d, res |-> "Ok"]
    ELSE LET r == sql_insert_team_vertex(d, team_id, position, bounds[position + 1])
         IN  IF r.res = "Ok"
             THEN insert_team_vertices(r.db, team_id, bounds, position + 1)
             ELSE r

(* StreetRepository::draw_street_polyline: begin, DELETE WHERE street_id,  *)
(* the INSERTs, commit; self.area_id is not used                           *)
draw_street_polyline(d, area_id, street_id, polyline) ==
    LET r == insert_street_vertices(sql_delete_street_polyline(d, street_id),
                                    street_id, polyline, 0)
    IN  IF r.res = "Ok" THEN [db |-> r.db, res |-> "Ok", val |-> None]
        ELSE [db |-> d, res |-> r.res, val |-> None]

(* StreetRepository::remove_street_polyline                                *)
remove_street_polyline(d, area_id, street_id) ==
    [db |-> sql_delete_street_polyline(d, street_id), res |-> "Ok", val |-> None]

(* TeamRepository::set_team_bounds                                         *)
set_team_bounds(d, area_id, team_id, bounds) ==
    LET r == insert_team_vertices(sql_delete_team_bounds(d, team_id), team_id, bounds, 0)
    IN  IF r.res = "Ok" THEN [db |-> r.db, res |-> "Ok", val |-> Some(bounds)]
        ELSE [db |-> d, res |-> r.res, val |-> None]

(* TeamRepository::remove_team_bounds                                      *)
remove_team_bounds(d, area_id, team_id) ==
    [db |-> sql_delete_team_bounds(d, team_id), res |-> "Ok", val |-> None]

(* Two Areas, each with one Street and one Team.                           *)
ScopeProject ==
    LET a1 == add_area(EmptyDb, NewArea(1), 1)
        a2 == add_area(a1.db, NewArea(2), 2)
        s1 == add_street(a2.db, a1.val)
        s2 == add_street(s1.db, a2.val)
        t1 == add_team(s2.db, a1.val)
    IN  add_team(t1.db, a2.val).db

InitScope ==
    /\ dbfile = EmptyDb
    /\ wal = ScopeProject
    /\ images = {1, 2}
    /\ InitOpen
    /\ pc = [t \in GateTasks |-> "idle"]
    /\ reopen = [t \in GateTasks |-> FALSE]
    /\ local = [t \in GateTasks |-> 0]
    /\ last = None
    /\ held = None
    /\ InitMem

ScopeCall(op, h, id, r) ==
    [op |-> op, area_id |-> h, id |-> id, res |-> r.res, val |-> r.val]

ScopeDrawStreetPolyline(h, id, polyline) ==
    /\ LET r == draw_street_polyline(View, h, id, polyline)
       IN  /\ Commit(r.db)
           /\ last' = Some(ScopeCall("draw_street_polyline", h, id, r) @@
                            [points |-> polyline])
    /\ UNCHANGED <<images, held, mem_vars>>
    /\ RepoFrame

ScopeRemoveStreetPolyline(h, id) ==
    /\ LET r == remove_street_polyline(View, h, id)
       IN  /\ Commit(r.db)
           /\ last' = Some(ScopeCall("remove_street_polyline", h, id, r))
    /\ UNCHANGED <<images, held, mem_vars>>
    /\ RepoFrame

ScopeSetTeamBounds(h, id, bounds) ==
    /\ LET r == set_team_bounds(View, h, id, bounds)
       IN  /\ Commit(r.db)
           /\ last' = Some(ScopeCall("set_team_bounds", h, id, r) @@
                            [points |-> bounds])
    /\ UNCHANGED <<images, held, mem_vars>>
    /\ RepoFrame

ScopeRemoveTeamBounds(h, id) ==
    /\ LET r == remove_team_bounds(View, h, id)
       IN  /\ Commit(r.db)
           /\ last' = Some(ScopeCall("remove_team_bounds", h, id, r))
    /\ UNCHANGED <<images, held, mem_vars>>
    /\ RepoFrame

ScopeGetStreetPolyline(h, id) ==
    /\ last' = Some([op |-> "get_street_polyline", area_id |-> h, id |-> id,
                     res |-> "Ok", val |-> get_street_polyline(View, id)])
    /\ UNCHANGED <<wal, images, held, mem_vars>>
    /\ RepoFrame

ScopeGetTeamBounds(h, id) ==
    /\ last' = Some([op |-> "get_team_bounds", area_id |-> h, id |-> id,
                     res |-> "Ok", val |-> get_team_bounds(View, id)])
    /\ UNCHANGED <<wal, images, held, mem_vars>>
    /\ RepoFrame

NextScope ==
    \/ \E h \in Handles, id \in StreetIds, p \in Polylines :
          ScopeDrawStreetPolyline(h, id, p)
    \/ \E h \in Handles, id \in StreetIds : ScopeRemoveStreetPolyline(h, id)
    \/ \E h \in Handles, id \in TeamIds, p \in Polylines : ScopeSetTeamBounds(h, id, p)
    \/ \E h \in Handles, id \in TeamIds : ScopeRemoveTeamBounds(h, id)
    \/ \E h \in Handles, id \in StreetIds : ScopeGetStreetPolyline(h, id)
    \/ \E h \in Handles, id \in TeamIds : ScopeGetTeamBounds(h, id)

SpecScope == InitScope /\ [][NextScope]_vars

StreetVertexOps == {"draw_street_polyline", "remove_street_polyline"}
TeamVertexOps == {"set_team_bounds", "remove_team_bounds"}
(* the Area that owns the Street or Team a vertex call names              *)
OwnerArea(d, c) ==
    IF c.op \in StreetVertexOps \cup {"get_street_polyline"}
    THEN StreetArea(d, c.id) ELSE TeamArea(d, c.id)

(* C17: a draw_street_polyline, remove_street_polyline, set_team_bounds or *)
(* remove_team_bounds call through the handle of one Area that names a     *)
(* Street or Team of another Area returns an error and leaves the vertex   *)
(* tables as they were; and get_street_polyline or get_team_bounds through *)
(* the handle of one Area for a Street or Team of another Area returns no  *)
(* vertices.                                                               *)
C17_VertexOpsAreaScoped ==
    [][(IsSome(last') /\ OwnerArea(View, Unwrap(last')) /= Unwrap(last').area_id)
       => LET c == Unwrap(last')
          IN  IF c.op \in StreetVertexOps \cup TeamVertexOps
              THEN /\ c.res /= "Ok"
                   /\ View'.street_polyline_vertices = View.street_polyline_vertices
                   /\ View'.team_bounds_vertices = View.team_bounds_vertices
              ELSE c.val = None]_vars


-----------------------------------------------------------------------------
(* Lookups by id through the handles of two Areas, among additions and     *)
(* deletions.                                                              *)
GetMaxAddresses == 2
ListMaxStreets == 3
ListMaxTeams == 3

(* Ok(Some(Team { id, number: record.num as u16 }))                        *)
Team_of(record) == [id |-> record.id, number |-> record.num % U16_MODULUS]

(* A mutant: SELECT ... FROM team WHERE id = $2                            *)
get_team_by_id_any_area(d, area_id, id) ==
    LET rows == {r \in d.team : r.id = id}
    IN  IF rows = {} THEN [res |-> "Ok", val |-> None]
        ELSE [res |-> "Ok", val |-> Some(Team_of(CHOOSE r \in rows : TRUE))]

(* TeamRepository::get_team_by_id: fetch_optional ... WHERE area_id = $1   *)
(* AND id = $2                                                             *)
get_team_by_id(d, area_id, id) ==
    LET rows == {r \in d.team : r.area_id = area_id /\ r.id = id}
    IN  IF rows = {} THEN [res |-> "Ok", val |-> None]
        ELSE [res |-> "Ok", val |-> Some(Team_of(CHOOSE r \in rows : TRUE))]

(* StreetRepository::get_street_by_id: fetch_optional ... WHERE area_id =  *)
(* $1 AND id = $2                                                          *)
get_street_by_id(d, area_id, id) ==
    LET rows == {r \in d.street : r.area_id = area_id /\ r.id = id}
    IN  IF rows = {} THEN [res |-> "Ok", val |-> None]
        ELSE [res |-> "Ok", val |-> Some(Street_of(CHOOSE r \in rows : TRUE))]

(* A mutant: DELETE FROM street WHERE id = $1                              *)
delete_street_any_area(d, area_id, street_id) ==
    [db |-> [d EXCEPT !.street = {r \in @ : r.id /= street_id}],
     res |-> "Ok", val |-> 0]

(* StreetRepository::delete_street: DELETE FROM street WHERE id = $1 AND   *)
(* area_id = $2, of a street no address and no vertex refers to            *)
delete_street(d, area_id, street_id) ==
    [db |-> [d EXCEPT !.street = {r \in @ : ~(r.id = street_id /\ r.area_id = area_id)}],
     res |-> "Ok", val |-> 0]

InitGet ==
    /\ dbfile = EmptyDb
    /\ wal = ScopeProject
    /\ images = {1, 2}
    /\ InitOpen
    /\ pc = [t \in GateTasks |-> "idle"]
    /\ reopen = [t \in GateTasks |-> FALSE]
    /\ local = [t \in GateTasks |-> 0]
    /\ last = None
    /\ held = None
    /\ InitMem

GetCall(op, h, arg, r) ==
    [op |-> op, area_id |-> h, arg |-> arg, res |-> r.res, val |-> r.val]

(* add_address(make_test_address(..)): the address names no street         *)
GetAddAddress(h) ==
    /\ View.seq.address < GetMaxAddresses
    /\ area_exists(View, h)
    /\ LET r == AddressRepository_add_address(View, h, TestAddress)
       IN  /\ Commit(r.db)
           /\ last' = Some(GetCall("add_address", h, 0, r))
    /\ UNCHANGED <<images, held, mem_vars>>
    /\ RepoFrame

GetDeleteAddress(h, id) ==
    /\ LET r == delete_address(View, h, id)
       IN  /\ Commit(r.db)
           /\ last' = Some(GetCall("delete_address", h, id, r))
    /\ UNCHANGED <<images, held, mem_vars>>
    /\ RepoFrame

GetDeleteStreet(h, id) ==
    /\ ~ \E a \in View.address : a.street_id = Some(id)
    /\ ~ \E v \in View.street_polyline_vertices : v.street_id = id
    /\ LET r == delete_street(View, h, id)
       IN  /\ Commit(r.db)
           /\ last' = Some(GetCall("delete_street", h, id, r))
    /\ UNCHANGED <<images, held, mem_vars>>
    /\ RepoFrame

(* delete() of an Area: its Teams go with it                               *)
GetDeleteArea(h) ==
    /\ area_exists(View, h)
    /\ LET r == delete(View, h)
       IN  /\ Commit(r.db)
           /\ last' = Some(GetCall("delete", h, h, r))
    /\ UNCHANGED <<images, held, mem_vars>>
    /\ RepoFrame

GetAddressById(h, id) ==
    /\ last' = Some(GetCall("get_address_by_id", h, id, get_address_by_id(View, h, id)))
    /\ UNCHANGED <<wal, images, held, mem_vars>>
    /\ RepoFrame

GetStreetById(h, id) ==
    /\ last' = Some(GetCall("get_street_by_id", h, id, get_street_by_id(View, h, id)))
    /\ UNCHANGED <<wal, images, held, mem_vars>>
    /\ RepoFrame

GetTeamById(h, id) ==
    /\ last' = Some(GetCall("get_team_by_id", h, id, get_team_by_id(View, h, id)))
    /\ UNCHANGED <<wal, images, held, mem_vars>>
    /\ RepoFrame

(* A mutant: SELECT ... FROM team ORDER BY id ASC, with no WHERE.           *)
get_teams_all_areas(d, area_id) ==
    LET ids == SortAsc({r.id : r \in d.team})
    IN  [res |-> "Ok",
         val |-> [i \in DOMAIN ids |-> Team_of(CHOOSE r \in d.team : r.id = ids[i])]]

(* TeamRepository::get_teams: WHERE area_id = $1 ORDER BY id ASC           *)
get_teams(d, area_id) ==
    LET rows == {r \in d.team : r.area_id = area_id}
        ids  == SortAsc({r.id : r \in rows})
    IN  [res |-> "Ok",
         val |-> [i \in DOMAIN ids |-> Team_of(CHOOSE r \in rows : r.id = ids[i])]]

(* StreetRepository::get_streets: WHERE area_id = $1 ORDER BY id ASC       *)
get_streets(d, area_id) ==
    LET rows == {r \in d.street : r.area_id = area_id}
        ids  == SortAsc({r.id : r \in rows})
    IN  [res |-> "Ok",
         val |-> [i \in DOMAIN ids |-> Street_of(CHOOSE r \in rows : r.id = ids[i])]]

GetAddStreet(h) ==
    /\ View.seq.street < ListMaxStreets
    /\ area_exists(View, h)
    /\ LET r == add_street(View, h)
       IN  /\ Commit(r.db)
           /\ last' = Some(GetCall("add_street", h, 0, r))
    /\ UNCHANGED <<images, held, mem_vars>>
    /\ RepoFrame

GetAddTeam(h) ==
    /\ View.seq.team < ListMaxTeams
    /\ area_exists(View, h)
    /\ LET r == add_team(View, h)
       IN  /\ Commit(r.db)
           /\ last' = Some(GetCall("add_team", h, 0, r))
    /\ UNCHANGED <<images, held, mem_vars>>
    /\ RepoFrame

GetAddresses(h) ==
    /\ last' = Some(GetCall("get_addresses", h, 0, get_addresses(View, h)))
    /\ UNCHANGED <<wal, images, held, mem_vars>>
    /\ RepoFrame

GetStreets(h) ==
    /\ last' = Some(GetCall("get_streets", h, 0, get_streets(View, h)))
    /\ UNCHANGED <<wal, images, held, mem_vars>>
    /\ RepoFrame

GetTeams(h) ==
    /\ last' = Some(GetCall("get_teams", h, 0, get_teams(View, h)))
    /\ UNCHANGED <<wal, images, held, mem_vars>>
    /\ RepoFrame

(* Additions, deletions and the three lists.                              *)
NextList ==
    \/ \E h \in Handles : GetAddAddress(h)
    \/ \E h \in Handles : GetAddStreet(h)
    \/ \E h \in Handles : GetAddTeam(h)
    \/ \E h \in Handles, id \in AddressIds : GetDeleteAddress(h, id)
    \/ \E h \in Handles, id \in StreetIds : GetDeleteStreet(h, id)
    \/ \E h \in Handles : GetDeleteArea(h)
    \/ \E h \in Handles : GetAddresses(h)
    \/ \E h \in Handles : GetStreets(h)
    \/ \E h \in Handles : GetTeams(h)

SpecList == InitGet /\ [][NextList]_vars

NextGet ==
    \/ \E h \in Handles : GetAddAddress(h)
    \/ \E h \in Handles, id \in AddressIds : GetDeleteAddress(h, id)
    \/ \E h \in Handles, id \in StreetIds : GetDeleteStreet(h, id)
    \/ \E h \in Handles : GetDeleteArea(h)
    \/ \E h \in Handles, id \in 1..(View.seq.address + 1) : GetAddressById(h, id)
    \/ \E h \in Handles, id \in 1..(View.seq.street + 1) : GetStreetById(h, id)
    \/ \E h \in Handles, id \in 1..(View.seq.team + 1) : GetTeamById(h, id)

SpecGet == InitGet /\ [][NextGet]_vars

GetByIdOps == {"get_address_by_id", "get_street_by_id", "get_team_by_id"}
TableOf(d, op) ==
    CASE op = "get_address_by_id" -> d.address
      [] op = "get_street_by_id" -> d.street
      [] op = "get_team_by_id" -> d.team
SeqOf(d, op) ==
    CASE op = "get_address_by_id" -> d.seq.address
      [] op = "get_street_by_id" -> d.seq.street
      [] op = "get_team_by_id" -> d.seq.team
(* the id was never given out / was given out and its row is gone / its    *)
(* row belongs to another Area than the handle's                           *)
NeverExisted(d, c) == c.arg > SeqOf(d, c.op)
WasDeleted(d, c) ==
    c.arg <= SeqOf(d, c.op) /\ ~ \E r \in TableOf(d, c.op) : r.id = c.arg
InOtherArea(d, c) ==
    \E r \in TableOf(d, c.op) : r.id = c.arg /\ r.area_id /= c.area_id

(* C18: a get_address_by_id, get_street_by_id or get_team_by_id call for   *)
(* an id that was never given out, whose row was deleted, or whose row     *)
(* belongs to another Area than the handle's returns Ok(None); for an id   *)
(* whose row belongs to the handle's Area it returns Ok(Some(entity)) with *)
(* that id.                                                                *)
C18_GetByIdAbsent ==
    [](IsSome(last) /\ Unwrap(last).op \in GetByIdOps =>
          LET c == Unwrap(last)
          IN  /\ c.res = "Ok"
              /\ (NeverExisted(View, c) \/ WasDeleted(View, c) \/ InOtherArea(View, c))
                      => c.val = None
              /\ (\E r \in TableOf(View, c.op) : r.id = c.arg /\ r.area_id = c.area_id)
                      => IsSome(c.val) /\ Unwrap(c.val).id = c.arg)

(* get_team_by_id for a Team of another Area has just returned None, after *)
(* an Address and a Street were deleted.                                   *)
C18_Witness ==
    /\ IsSome(last)
    /\ Unwrap(last).op = "get_team_by_id"
    /\ InOtherArea(View, Unwrap(last))
    /\ Unwrap(last).val = None
    /\ Cardinality(View.address) < View.seq.address
    /\ Cardinality(View.street) < View.seq.street


-----------------------------------------------------------------------------
(* Area updates.                                                           *)
StateMaxAreas == 1

AreaStates == Imported..Complete

(* AreaUpdate { name, color, state }                                       *)
AreaUpdate_default == [name |-> None, color |-> None, state |-> None]
AreaUpdates ==
    [name : {None, Some("Renamed")},
     color : {None, Some(TEST_BLUE)},
     state : {None} \cup {Some(s) : s \in AreaStates}]

(* A mutant: a state below the stored one is refused.                      *)
update_area_forward_only(d, area_id, update) ==
    LET rows == AreaRow(d, area_id)
    IN  IF rows = {} THEN [db |-> d, res |-> "RowNotFound", val |-> None]
        ELSE
        LET old == CHOOSE r \in rows : TRUE
            new == [old EXCEPT !.name = COALESCE(update.name, @),
                               !.color = COALESCE(IF IsSome(update.color)
                                                  THEN Some(Color_to_i64(Unwrap(update.color)))
                                                  ELSE None, @),
                               !.state = COALESCE(update.state, @)]
        IN  IF new.state < old.state
            THEN [db |-> d, res |-> "InvalidTransition", val |-> None]
            ELSE [db |-> [d EXCEPT !.area = (@ \ {old}) \cup {new}],
                  res |-> "Ok", val |-> Some(Area_of(new))]

(* BoundAreaRepository::update_area: UPDATE area SET name = COALESCE($1,   *)
(* name), color = COALESCE($2, color), state = COALESCE($3, state) WHERE   *)
(* id = $4 RETURNING ..., fetch_one                                        *)
update_area(d, area_id, update) ==
    LET color == IF IsSome(update.color) THEN Some(Color_to_i64(Unwrap(update.color)))
                 ELSE None
        state == update.state
        rows  == AreaRow(d, area_id)
    IN  IF rows = {} THEN [db |-> d, res |-> "RowNotFound", val |-> None]
        ELSE
        LET old == CHOOSE r \in rows : TRUE
            record == [old EXCEPT !.name = COALESCE(update.name, @),
                                  !.color = COALESCE(color, @),
                                  !.state = COALESCE(state, @)]
            d2 == [d EXCEPT !.area = (@ \ {old}) \cup {record}]
        IN  IF ~AreaState_try_from(record.state).ok
            THEN [db |-> d2, res |-> "InvalidAreaState", val |-> None]
            ELSE [db |-> d2, res |-> "Ok", val |-> Some(Area_of(record))]

StateAddArea == DoAddArea(StateMaxAreas)

(* update_area through a handle; prev is the row the call found            *)
StateUpdateArea(h, update) ==
    /\ LET r == update_area(View, h, update)
       IN  /\ Commit(r.db)
           /\ last' = Some([op |-> "update_area", area_id |-> h, arg |-> update,
                            res |-> r.res, val |-> r.val,
                            prev |-> IF AreaRow(View, h) = {} THEN None
                                     ELSE Some(CHOOSE x \in AreaRow(View, h) : TRUE)])
    /\ UNCHANGED <<images, held, mem_vars>>
    /\ RepoFrame

StateGetArea(h) ==
    /\ LET r == get_area(View, h)
       IN  last' = Some([op |-> "get_area", area_id |-> h, arg |-> 0,
                         res |-> r.res, val |-> r.val, prev |-> None])
    /\ UNCHANGED <<wal, images, held, mem_vars>>
    /\ RepoFrame

StateDelete(h) ==
    /\ area_exists(View, h)
    /\ LET r == delete(View, h)
       IN  /\ Commit(r.db)
           /\ last' = Some([op |-> "delete", area_id |-> h, arg |-> 0,
                            res |-> r.res, val |-> None, prev |-> None])
    /\ UNCHANGED <<images, held, mem_vars>>
    /\ RepoFrame

NextState ==
    \/ StateAddArea
    \/ \E h \in Handles, u \in AreaUpdates : StateUpdateArea(h, u)
    \/ \E h \in Handles : StateGetArea(h)
    \/ \E h \in Handles : StateDelete(h)

SpecState == InitRepo /\ [][NextState]_vars

UpdateAreaCall(c) == c.op = "update_area" /\ IsSome(c.prev)
TheArea(d, id) == CHOOSE x \in AreaRow(d, id) : TRUE

(* C19: in every reachable store, for every Area and every one of the nine *)
(* states t, update_area with state = t succeeds and stores t, whatever    *)
(* state s the Area is in; and every update_area call that ran on an       *)
(* existing Area returned Ok with the Area as stored, whose state, name    *)
(* and colour are the named values, or the values before the call where    *)
(* the update leaves them unspecified, every other Area row being as it    *)
(* was.                                                                    *)
C19_StatePermissive ==
    /\ [](\A a \in View.area : \A t \in AreaStates :
              LET r == update_area(View, a.id,
                                   [AreaUpdate_default EXCEPT !.state = Some(t)])
              IN  /\ r.res = "Ok"
                  /\ TheArea(r.db, a.id) = [a EXCEPT !.state = t])
    /\ [][(IsSome(last') /\ UpdateAreaCall(Unwrap(last'))) =>
          LET c   == Unwrap(last')
              u   == c.arg
              old == Unwrap(c.prev)
              new == TheArea(View', c.area_id)
          IN  /\ old = TheArea(View, c.area_id)
              /\ c.res = "Ok"
              /\ c.val = Some(Area_of(new))
              /\ new.state = (IF IsSome(u.state) THEN Unwrap(u.state) ELSE old.state)
              /\ new.name = (IF IsSome(u.name) THEN Unwrap(u.name) ELSE old.name)
              /\ Color_try_from(new.color) =
                     (IF IsSome(u.color) THEN Unwrap(u.color)
                      ELSE Color_try_from(old.color))
              /\ new.id = old.id /\ new.image_fname = old.image_fname
              /\ View'.area \ {new} = View.area \ {old}]_vars

(* A Complete Area has just been set back to Imported by an update that    *)
(* names only the state, after it was renamed.                             *)
C19_Witness ==
    /\ IsSome(last)
    /\ UpdateAreaCall(Unwrap(last))
    /\ Unwrap(last).res = "Ok"
    /\ Unwrap(Unwrap(last).prev).state = Complete
    /\ Unwrap(last).arg = [AreaUpdate_default EXCEPT !.state = Some(Imported)]
    /\ TheArea(View, Unwrap(last).area_id).state = Imported
    /\ TheArea(View, Unwrap(last).area_id).name = "Renamed"


-----------------------------------------------------------------------------
(* Serialization of snapshots.                                             *)
SnapshotSteps ==
    {<<"checkpoint", "close">>, <<"close", "pack">>, <<"pack", "reopen">>,
     <<"checkpoint", "idle">>, <<"pack", "idle">>, <<"reopen", "idle">>}

(* C20: at every moment at most one task is inside internal_close_and_pack *)
(* past its pool.write(), and it holds the write lock; a task passes       *)
(* pool.write() only when no other task is there, so a second snapshot's   *)
(* checkpoint comes after the first has returned; a snapshot moves through *)
(* checkpoint, close, pack, reopen in that order or returns early with an  *)
(* error; and while it is there every other task can only start a call and *)
(* wait for the lock, or return from a call whose guard is already         *)
(* dropped, and the database file, the WAL, the images, the archive and    *)
(* the pool change in the snapshot's own steps only.                       *)
C20_OneSnapshotAtATime ==
    /\ [](\A s, t \in GateTasks :
              (SnapshotRunning(s) /\ SnapshotRunning(t)) => s = t)
    /\ [](\A s \in GateTasks : SnapshotRunning(s) => (writer = s /\ readers = {}))
    /\ [][\A t \in GateTasks :
            (pc[t] = "write_wait" /\ pc'[t] = "checkpoint")
                => \A s \in GateTasks : ~SnapshotRunning(s)]_vars
    /\ [][\A s \in GateTasks :
            SnapshotRunning(s) =>
                /\ pc'[s] /= pc[s] => <<pc[s], pc'[s]>> \in SnapshotSteps
                /\ pc'[s] = pc[s] =>
                      /\ UNCHANGED <<dbfile, wal, images, archive, pool_closed>>
                      /\ \A t \in GateTasks \ {s} :
                            pc'[t] /= pc[t] =>
                                \/ pc[t] = "idle" /\ pc'[t] \in {"read_wait", "write_wait"}
                                \/ pc[t] = "conn_return" /\ pc'[t] = "idle"]_vars

(* A save_project is at its reopen step while a second save_project waits  *)
(* at the head of the lock queue.                                          *)
C20_Witness ==
    \E s, t \in GateTasks :
        /\ s /= t
        /\ pc[s] = "reopen" /\ reopen[s]
        /\ pc[t] = "write_wait" /\ reopen[t]
        /\ lockq /= <<>> /\ Head(lockq) = t


-----------------------------------------------------------------------------
(* Progress of the gate.  A started call keeps running: a task that waits  *)
(* for the lock is woken when the lock is granted to it, a guard is        *)
(* dropped when its operation returns, and the file operations of a        *)
(* snapshot return.  Whether a task starts a call is left open.            *)
GateProgress(t) ==
    \/ conn_read(t)
    \/ conn_acquire(t)
    \/ gate_get_areas(t)
    \/ gate_add_area_store(t)
    \/ gate_add_area_insert(t)
    \/ \E id \in 1..GateMaxAreas : gate_delete(t, id)
    \/ conn_return(t)
    \/ snap_write(t)
    \/ snap_checkpoint(t)
    \/ snap_close(t)
    \/ snap_pack(t)
    \/ snap_reopen(t)

SpecGateLive == SpecGate /\ \A t \in GateTasks : WF_vars(GateProgress(t))

InSnapshotCall(t) == pc[t] = "write_wait" \/ SnapshotRunning(t)
InConn(t) == pc[t] \in {"read_wait", "acquire"}

(* C21: every internal_close_and_pack call that has started returns; every *)
(* conn() call that has started returns, with a guard or with an error;    *)
(* and it returns a guard exactly when the pool it finds is open.          *)
C21_SnapshotProgress ==
    /\ \A t \in GateTasks : InSnapshotCall(t) ~> (pc[t] = "idle")
    /\ \A t \in GateTasks : InConn(t) ~> (GuardLive(t) \/ pc[t] = "idle")
    /\ [][\A t \in GateTasks :
            ConnReturns(t) => (GuardLive(t)' <=> ~pool_closed)]_vars

(* A conn() call waits for the lock while an internal_close_and_pack(false) *)
(* that has packed is about to return with the pool closed.                 *)
C21_Witness ==
    \E s, t \in GateTasks :
        /\ pc[s] = "reopen" /\ ~reopen[s] /\ pool_closed
        /\ pc[t] = "read_wait"
        /\ lockq = <<t>>


-----------------------------------------------------------------------------
(* Addresses with streets, assigned to the Teams of two Areas, and the     *)
(* queries that join them.                                                 *)
BulkMaxAddresses == 2

(* One row of ... FROM team_assignment ta JOIN address a ON ta.address_id  *)
(* = a.id LEFT JOIN street s ON a.street_id = s.id, mapped to TeamAddress  *)
TeamAddress_of(d, a) ==
    LET s == {st \in d.street : a.street_id = Some(st.id)}
    IN  [address_id |-> a.id,
         street_id |-> IF s = {} THEN None ELSE Some((CHOOSE st \in s : TRUE).id),
         street_name |-> IF s = {} THEN None ELSE (CHOOSE st \in s : TRUE).name,
         house_number |-> a.house_number]

(* the joined rows ta x a with a.area_id = $area                           *)
JoinedAssignments(d, area_id) ==
    {<<ta, a>> \in d.team_assignment \X d.address :
        ta.address_id = a.id /\ a.area_id = area_id}

(* TeamRepository::get_team_addresses: ... WHERE ta.team_id = $1 AND       *)
(* a.area_id = $2 ORDER BY a.id ASC                                        *)
get_team_addresses(d, area_id, team_id) ==
    LET rows == {j \in JoinedAssignments(d, area_id) : j[1].team_id = team_id}
        ids  == SortAsc({j[2].id : j \in rows})
    IN  [res |-> "Ok",
         val |-> [i \in DOMAIN ids |->
                     TeamAddress_of(d, (CHOOSE j \in rows : j[2].id = ids[i])[2])]]

(* ORDER BY ta.team_id ASC, a.id ASC                                       *)
RECURSIVE OrderByTeamThenAddress(_, _)
OrderByTeamThenAddress(rows, team_ids) ==
    IF team_ids = <<>> THEN <<>>
    ELSE LET mine == {j \in rows : j[1].team_id = Head(team_ids)}
             ids  == SortAsc({j[2].id : j \in mine})
         IN  [i \in DOMAIN ids |-> CHOOSE j \in mine : j[2].id = ids[i]]
             \o OrderByTeamThenAddress(rows, Tail(team_ids))

(* for record in records { map.entry(record.team_id).or_default().push(..) } *)
RECURSIVE GroupByTeam(_, _, _)
GroupByTeam(d, records, map) ==
    IF records = <<>> THEN map
    ELSE LET team_id == Head(records)[1].team_id
             item    == TeamAddress_of(d, Head(records)[2])
         IN  GroupByTeam(d, Tail(records),
                         IF team_id \in DOMAIN map
                         THEN [map EXCEPT ![team_id] = Append(@, item)]
                         ELSE map @@ (team_id :> <<item>>))

(* A mutant: the query without AND street_id = $2.                         *)
get_address_by_street_any_street(d, area_id, street_id) ==
    LET rows == {r \in d.address : r.area_id = area_id}
        ids  == SortAsc({r.id : r \in rows})
    IN  [res |-> "Ok",
         val |-> [i \in DOMAIN ids |-> Address_of(CHOOSE r \in rows : r.id = ids[i])]]

(* A mutant: the bulk query without WHERE a.area_id = $1.                  *)
get_team_addresses_all_any_area(d, area_id) ==
    LET rows == {<<ta, a>> \in d.team_assignment \X d.address : ta.address_id = a.id}
    IN  [res |-> "Ok",
         val |-> GroupByTeam(d, OrderByTeamThenAddress(
                                    rows, SortAsc({j[1].team_id : j \in rows})), <<>>)]

(* TeamRepository::get_team_addresses_all                                  *)
get_team_addresses_all(d, area_id) ==
    LET rows == JoinedAssignments(d, area_id)
    IN  [res |-> "Ok",
         val |-> GroupByTeam(d, OrderByTeamThenAddress(
                                    rows, SortAsc({j[1].team_id : j \in rows})), <<>>)]

(* Two Areas: the first with the street "Main Street", an unnamed street   *)
(* and two Teams, the second with an unnamed street and one Team; the      *)
(* first street and the first team of each Area have vertices.             *)
BulkProject ==
    LET a1 == add_area(EmptyDb, NewArea(1), 1)
        a2 == add_area(a1.db, NewArea(2), 2)
        s1 == add_street(a2.db, a1.val)
        n1 == update_street(s1.db, a1.val, Unwrap(s1.val),
                            [StreetUpdate_default EXCEPT !.name = Some("Main Street")])
        s2 == add_street(n1.db, a2.val)
        t1 == add_team(s2.db, a1.val)
        t2 == add_team(t1.db, a1.val)
        t3 == add_team(t2.db, a2.val)
        s3 == add_street(t3.db, a1.val)
        p1 == draw_street_polyline(s3.db, a1.val, Unwrap(s1.val).id, Path(2))
        p2 == draw_street_polyline(p1.db, a2.val, Unwrap(s2.val).id, Path(1))
        b1 == set_team_bounds(p2.db, a1.val, t1.val, Path(1))
    IN  set_team_bounds(b1.db, a2.val, t3.val, Path(2)).db

InitBulk ==
    /\ dbfile = EmptyDb
    /\ wal = BulkProject
    /\ images = {1, 2}
    /\ InitOpen
    /\ pc = [t \in GateTasks |-> "idle"]
    /\ reopen = [t \in GateTasks |-> FALSE]
    /\ local = [t \in GateTasks |-> 0]
    /\ last = None
    /\ held = None
    /\ InitMem

BulkCall(op, h, team_id, arg, r) ==
    [op |-> op, area_id |-> h, team_id |-> team_id, arg |-> arg,
     res |-> r.res, val |-> r.val]

(* add_address of an address with or without a street                      *)
BulkAddAddress(h, s) ==
    /\ View.seq.address < BulkMaxAddresses
    /\ LET r == AddressRepository_add_address(
                    View, h, [TestAddress EXCEPT !.assigned_street_id = s])
       IN  /\ Commit(r.db)
           /\ last' = Some(BulkCall("add_address", h, 0, s, r))
    /\ UNCHANGED <<images, held, mem_vars>>
    /\ RepoFrame

BulkAssign(h, team_id, address_id) ==
    /\ LET r == TeamRepository_add_address(View, h, team_id, address_id)
       IN  /\ Commit(r.db)
           /\ last' = Some(BulkCall("assign", h, team_id, address_id, r))
    /\ UNCHANGED <<images, held, mem_vars>>
    /\ RepoFrame

BulkRemove(h, team_id, address_id) ==
    /\ LET r == remove_address(View, h, team_id, address_id)
       IN  /\ Commit(r.db)
           /\ last' = Some(BulkCall("remove_address", h, team_id, address_id, r))
    /\ UNCHANGED <<images, held, mem_vars>>
    /\ RepoFrame

(* the rows scoped to an Area: its streets, addresses, teams, assignments  *)
(* and the vertices of its streets and teams                               *)
ScopedRows(d, area_id) ==
    [street |-> {x \in d.street : x.area_id = area_id},
     address |-> {x \in d.address : x.area_id = area_id},
     team |-> {x \in d.team : x.area_id = area_id},
     team_assignment |-> {x \in d.team_assignment : x.area_id = area_id},
     street_polyline_vertices |->
         {v \in d.street_polyline_vertices :
             \E x \in d.street : x.id = v.street_id /\ x.area_id = area_id},
     team_bounds_vertices |->
         {v \in d.team_bounds_vertices :
             \E x \in d.team : x.id = v.team_id /\ x.area_id = area_id}]

(* delete() through the handle of an Area that exists; arg is what was     *)
(* scoped to the Area                                                      *)
BulkDeleteArea(h) ==
    /\ area_exists(View, h)
    /\ LET r == delete(View, h)
       IN  /\ Commit(r.db)
           /\ last' = Some(BulkCall("delete", h, 0, ScopedRows(View, h), r))
    /\ UNCHANGED <<images, held, mem_vars>>
    /\ RepoFrame

BulkGetTeamAddresses(h, team_id) ==
    /\ last' = Some(BulkCall("get_team_addresses", h, team_id, 0,
                             get_team_addresses(View, h, team_id)))
    /\ UNCHANGED <<wal, images, held, mem_vars>>
    /\ RepoFrame

BulkGetTeamAddressesAll(h) ==
    /\ last' = Some(BulkCall("get_team_addresses_all", h, 0, 0,
                             get_team_addresses_all(View, h)))
    /\ UNCHANGED <<wal, images, held, mem_vars>>
    /\ RepoFrame

(* AddressRepository::get_address_by_street: WHERE area_id = $1 AND        *)
(* street_id = $2 ORDER BY id ASC                                          *)
get_address_by_street(d, area_id, street_id) ==
    LET rows == {r \in d.address : r.area_id = area_id /\ r.street_id = Some(street_id)}
        ids  == SortAsc({r.id : r \in rows})
    IN  [res |-> "Ok",
         val |-> [i \in DOMAIN ids |-> Address_of(CHOOSE r \in rows : r.id = ids[i])]]

BulkGetAddressByStreet(h, street_id) ==
    /\ last' = Some(BulkCall("get_address_by_street", h, 0, street_id,
                             get_address_by_street(View, h, street_id)))
    /\ UNCHANGED <<wal, images, held, mem_vars>>
    /\ RepoFrame

NextBulk ==
    \/ \E h \in Handles, s \in {None} \cup {Some(id) : id \in StreetIds} :
          BulkAddAddress(h, s)
    \/ \E h \in Handles, t \in TeamIds, a \in AddressIds : BulkAssign(h, t, a)
    \/ \E h \in Handles, t \in TeamIds, a \in AddressIds : BulkRemove(h, t, a)
    \/ \E h \in Handles, t \in TeamIds : BulkGetTeamAddresses(h, t)
    \/ \E h \in Handles : BulkGetTeamAddressesAll(h)
    \/ \E h \in Handles, s \in StreetIds : BulkGetAddressByStreet(h, s)
    \/ \E h \in Handles : BulkDeleteArea(h)

SpecBulk == InitBulk /\ [][NextBulk]_vars

TeamsOf(d, area_id) == {t.id : t \in {x \in d.team : x.area_id = area_id}}

(* C22: in every reachable store and through every handle, the map of      *)
(* get_team_addresses_all has an entry for a Team of the handle's Area     *)
(* exactly when get_team_addresses of that Team is not empty, the entry is *)
(* then the same sequence of TeamAddress values, and every key of the map  *)
(* is a Team of the handle's Area.                                         *)
C22_BulkAgreesWithPerTeam ==
    \A h \in Handles :
        LET all == get_team_addresses_all(View, h).val
        IN  /\ \A t \in TeamsOf(View, h) :
                  LET per == get_team_addresses(View, h, t).val
                  IN  /\ t \in DOMAIN all <=> per /= <<>>
                      /\ t \in DOMAIN all => all[t] = per
            /\ DOMAIN all \subseteq TeamsOf(View, h)

(* get_team_addresses_all has just returned a Team with two addresses, one *)
(* with a street and one without.                                          *)
C22_Witness ==
    /\ IsSome(last)
    /\ Unwrap(last).op = "get_team_addresses_all"
    /\ \E t \in DOMAIN Unwrap(last).val :
          /\ Len(Unwrap(last).val[t]) = 2
          /\ \E i, j \in 1..2 :
                /\ Unwrap(last).val[t][i].street_name = Some("Main Street")
                /\ Unwrap(last).val[t][j].street_id = None


-----------------------------------------------------------------------------
(* Addresses by street.                                                    *)
IdsOf(addresses) == [i \in DOMAIN addresses |-> addresses[i].id]
AscendingIds(ids) == \A i, j \in DOMAIN ids : i < j => ids[i] < ids[j]

(* C23: in every reachable store, through every handle and for every       *)
(* Street S, get_address_by_street(S) returns, in strictly ascending id    *)
(* order and each as stored, exactly the Addresses of the handle's Area    *)
(* whose street is S; and right after add_address has stored an Address    *)
(* with street S, the Address is in the list of S through its handle and   *)
(* in the list of no other Street, while an Address stored with no street  *)
(* is in no list.                                                          *)
C23_AddressesByStreet ==
    /\ [](\A h \in Handles : \A s \in StreetIds :
              LET l == get_address_by_street(View, h, s).val
              IN  /\ AscendingIds(IdsOf(l))
                  /\ Range(IdsOf(l)) =
                         {a.id : a \in {x \in View.address :
                                           x.area_id = h /\ x.street_id = Some(s)}}
                  /\ \A i \in DOMAIN l : l[i] = Address_of(AddressRowOf(View, l[i].id)))
    /\ [][(IsSome(last') /\ Unwrap(last').op = "add_address"
                         /\ Unwrap(last').res = "Ok") =>
          LET c  == Unwrap(last')
              id == Unwrap(c.val).id
          IN  \A s \in StreetIds :
                  id \in Range(IdsOf(get_address_by_street(View', c.area_id, s).val))
                      <=> c.arg = Some(s)]_vars

(* get_address_by_street has just returned one Address of an Area that     *)
(* holds a second Address, on its other street.                            *)
C23_Witness ==
    /\ IsSome(last)
    /\ Unwrap(last).op = "get_address_by_street"
    /\ Len(Unwrap(last).val) = 1
    /\ \E a \in View.address :
          /\ a.area_id = Unwrap(last).area_id
          /\ IsSome(a.street_id)
          /\ a.street_id /= Some(Unwrap(last).arg)


-----------------------------------------------------------------------------
(* Removing an address from a team.                                        *)
RemoveStep == IsSome(last') /\ Unwrap(last').op = "remove_address"
RemovedRow(c) == [team_id |-> c.team_id, address_id |-> c.arg, area_id |-> c.area_id]

(* C24: a remove_address(T, A) call through a handle returns Ok and takes  *)
(* from the store the team_assignment row of exactly (T, A, the handle's   *)
(* Area), if there is one, and nothing else: a row that assigns A to       *)
(* another team stays; and in every reachable store an Address with no     *)
(* assignment, one whose assignment was removed included, is accepted by   *)
(* add_address for every Team of its Area.                                 *)
C24_RemoveOnlyThatPair ==
    /\ [][RemoveStep =>
          LET c == Unwrap(last')
          IN  /\ c.res = "Ok"
              /\ View' = [View EXCEPT !.team_assignment = @ \ {RemovedRow(c)}]
              /\ \A x \in View.team_assignment :
                    (x.address_id = c.arg /\ x.team_id /= c.team_id)
                        => x \in View'.team_assignment]_vars
    /\ [](\A a \in View.address :
              AssignmentsOf(View, a.id) = {} =>
                  \A t \in TeamsOf(View, a.area_id) :
                      LET r == TeamRepository_add_address(View, a.area_id, t, a.id)
                      IN  /\ r.res = "Ok"
                          /\ AssignmentsOf(r.db, a.id) =
                                 {[team_id |-> t, address_id |-> a.id,
                                   area_id |-> a.area_id]})

(* remove_address(T, A) has just run through the handle of A's Area while  *)
(* A is assigned to another Team of that Area.                             *)
C24_Witness ==
    /\ IsSome(last)
    /\ Unwrap(last).op = "remove_address"
    /\ \E x \in View.team_assignment :
          /\ x.address_id = Unwrap(last).arg
          /\ x.area_id = Unwrap(last).area_id
          /\ x.team_id /= Unwrap(last).team_id
          /\ Unwrap(last).team_id \in TeamsOf(View, x.area_id)


-----------------------------------------------------------------------------
(* Failed replacements.                                                    *)
IsReplace(c) == c.op \in {"draw_street_polyline", "set_team_bounds"}
StoredList(d, c) ==
    IF c.op = "draw_street_polyline" THEN get_street_polyline(d, c.id)
    ELSE get_team_bounds(d, c.id)

(* C25: a draw_street_polyline or set_team_bounds call that returns an     *)
(* error, whichever statement failed and however many vertices it had      *)
(* inserted, leaves every table as committed before the step, and the      *)
(* owner's stored list is the complete list stored when the call began.    *)
C25_FailedReplacementKeepsOld ==
    [][(IsSome(last') /\ last' /= last /\ IsReplace(Unwrap(last'))
                      /\ Unwrap(last').res /= "Ok") =>
          /\ View' = View
          /\ Unwrap(last').res = "Err" =>
                StoredList(View', Unwrap(last')) = Unwrap(last').old]_vars

(* A replacement of a stored two-vertex polyline has failed after its      *)
(* DELETE and one INSERT, and the two vertices are still stored.           *)
C25_Witness ==
    /\ IsSome(last)
    /\ Unwrap(last).op = "draw_street_polyline"
    /\ Unwrap(last).res = "Err"
    /\ Unwrap(last).position = 1
    /\ Unwrap(last).old = Some(Path(PolyMaxLen))
    /\ get_street_polyline(View, Unwrap(last).id) = Some(Path(PolyMaxLen))


-----------------------------------------------------------------------------
(* Round trip of polylines and boundaries.                                 *)
OwnerRows(d, c) ==
    IF c.op \in StreetVertexOps
    THEN {r \in d.street_polyline_vertices : r.street_id = c.id}
    ELSE {r \in d.team_bounds_vertices : r.team_id = c.id}
OwnerList(d, c) ==
    IF c.op \in StreetVertexOps THEN get_street_polyline(d, c.id)
    ELSE get_team_bounds(d, c.id)
AsStored(points) == IF points = <<>> THEN None ELSE Some(points)

(* C26: after every draw_street_polyline(S, P) or set_team_bounds(T, P)    *)
(* that returns Ok, whatever was stored for the owner before, the owner    *)
(* has exactly Len(P) vertex rows, at positions 0..Len(P)-1, and the       *)
(* getter returns P in order, or None when P is empty; set_team_bounds     *)
(* returns P; after remove_street_polyline or remove_team_bounds the       *)
(* getter returns None; and in every reachable store removing leaves the   *)
(* same store as replacing by the empty list.                              *)
C26_PolylineRoundTrip ==
    /\ [][(IsSome(last') /\ Unwrap(last').op \in {"draw_street_polyline", "set_team_bounds"}
                         /\ Unwrap(last').res = "Ok") =>
          LET c == Unwrap(last')
          IN  /\ OwnerList(View', c) = AsStored(c.points)
              /\ {r.position : r \in OwnerRows(View', c)} = 0..(Len(c.points) - 1)
              /\ Cardinality(OwnerRows(View', c)) = Len(c.points)
              /\ c.op = "set_team_bounds" => c.val = Some(c.points)]_vars
    /\ [][(IsSome(last') /\ Unwrap(last').op \in {"remove_street_polyline",
                                                  "remove_team_bounds"}) =>
          /\ Unwrap(last').res = "Ok"
          /\ OwnerList(View', Unwrap(last')) = None]_vars
    /\ [](\A h \in Handles :
            /\ \A s \in StreetIds :
                  remove_street_polyline(View, h, s).db =
                      draw_street_polyline(View, h, s, <<>>).db
            /\ \A t \in TeamIds :
                  remove_team_bounds(View, h, t).db = set_team_bounds(View, h, t, <<>>).db)

(* A one-vertex polyline has just been drawn and is what                   *)
(* get_street_polyline returns, while another Street keeps two vertices.   *)
C26_Witness ==
    /\ IsSome(last)
    /\ Unwrap(last).op = "draw_street_polyline"
    /\ Unwrap(last).res = "Ok"
    /\ Unwrap(last).points = Path(1)
    /\ get_street_polyline(View, Unwrap(last).id) = Some(Path(1))
    /\ \E s \in StreetIds :
          s /= Unwrap(last).id /\ get_street_polyline(View, s) = Some(Reverse(Path(PolyMaxLen)))


-----------------------------------------------------------------------------
(* Deleting an Area and the rows scoped to it.                             *)
ChildTables ==
    {"street", "address", "team", "team_assignment", "street_polyline_vertices",
     "team_bounds_vertices"}
NoScopedRows(d, area_id) == \A tb \in ChildTables : ScopedRows(d, area_id)[tb] = {}

-----------------------------------------------------------------------------
(* Lists through an Area handle.                                           *)
ListOps == {"get_addresses", "get_streets", "get_teams"}
ListOf(d, op, h) ==
    CASE op = "get_addresses" -> get_addresses(d, h).val
      [] op = "get_streets" -> get_streets(d, h).val
      [] op = "get_teams" -> get_teams(d, h).val
ListTable(d, op) ==
    CASE op = "get_addresses" -> d.address
      [] op = "get_streets" -> d.street
      [] op = "get_teams" -> d.team
AddOf(op) ==
    CASE op = "get_addresses" -> "add_address"
      [] op = "get_streets" -> "add_street"
      [] op = "get_teams" -> "add_team"
DeleteOf(op) ==
    CASE op = "get_addresses" -> "delete_address"
      [] op = "get_streets" -> "delete_street"
      [] op = "get_teams" -> "none"

(* C28: in every reachable store and through every handle, get_addresses,  *)
(* get_streets and get_teams return, in strictly ascending id order, one   *)
(* entity for each row of the table that has the handle's area_id and no   *)
(* other; a row added through a handle is from then on in that handle's    *)
(* list, a row deleted is in no list, and what a list call returned is the *)
(* list of the store it ran on.                                            *)
C28_ListsScopedAscending ==
    /\ [](\A h \in Handles : \A op \in ListOps :
              LET l == ListOf(View, op, h)
              IN  /\ AscendingIds(IdsOf(l))
                  /\ Range(IdsOf(l)) =
                         {r.id : r \in {x \in ListTable(View, op) : x.area_id = h}})
    /\ [][\A op \in ListOps :
            /\ (IsSome(last') /\ Unwrap(last').op = AddOf(op)
                              /\ Unwrap(last').res = "Ok") =>
                  \E id \in Range(IdsOf(ListOf(View', op, Unwrap(last').area_id))) :
                      /\ id \notin {r.id : r \in ListTable(View, op)}
                      /\ \A o \in Handles \ {Unwrap(last').area_id} :
                            id \notin Range(IdsOf(ListOf(View', op, o)))
            /\ (IsSome(last') /\ Unwrap(last').op = DeleteOf(op)
                              /\ Unwrap(last').res = "Ok"
                              /\ Unwrap(last').arg \in
                                     Range(IdsOf(ListOf(View, op, Unwrap(last').area_id)))) =>
                  \A o \in Handles :
                      Unwrap(last').arg \notin Range(IdsOf(ListOf(View', op, o)))
            /\ (IsSome(last') /\ Unwrap(last').op = op) =>
                  Unwrap(last').val = ListOf(View, op, Unwrap(last').area_id)]_vars

(* get_streets has just returned the two Streets of an Area, while the     *)
(* other Area has a Street of its own and an Address has been deleted.     *)
C28_Witness ==
    /\ IsSome(last)
    /\ Unwrap(last).op = "get_streets"
    /\ Len(Unwrap(last).val) = 2
    /\ Cardinality(View.address) < View.seq.address
    /\ \E x \in View.street : x.area_id /= Unwrap(last).area_id

-----------------------------------------------------------------------------
(* Updates and deletes of Addresses and Streets through any Area's handle. *)

(* AddressUpdate::default() and AddressUpdate { verified: Some(true), .. }  *)
MutAddressUpdates == {u \in SingleFieldUpdates(View) : Named(u) \subseteq {"verified"}}

(* update_address(&address, &update) with an Address read from the store   *)
MutUpdateAddress(h, a, update) ==
    /\ LET r == update_address(View, h, Address_of(a), update)
       IN  /\ Commit(r.db)
           /\ last' = Some(GetCall("update_address", h, a.id, r))
    /\ UNCHANGED <<images, held, mem_vars>>
    /\ RepoFrame

(* update_street(&street, &update) with a Street read from the store       *)
MutUpdateStreet(h, st, update) ==
    /\ LET r == update_street(View, h, Street_of(st), update)
       IN  /\ Commit(r.db)
           /\ last' = Some(GetCall("update_street", h, st.id, r))
    /\ UNCHANGED <<images, held, mem_vars>>
    /\ RepoFrame

NextMutate ==
    \/ \E h \in Handles : GetAddAddress(h)
    \/ \E h \in Handles, a \in View.address, u \in MutAddressUpdates :
          MutUpdateAddress(h, a, u)
    \/ \E h \in Handles, id \in AddressIds : GetDeleteAddress(h, id)
    \/ \E h \in Handles, st \in View.street, u \in StreetUpdates :
          MutUpdateStreet(h, st, u)
    \/ \E h \in Handles, id \in StreetIds : GetDeleteStreet(h, id)

SpecMutate == InitGet /\ [][NextMutate]_vars

MutateOps == {"update_address", "delete_address", "update_street", "delete_street"}
MutatedTable(d, op) ==
    IF op \in {"update_address", "delete_address"} THEN d.address ELSE d.street

(* The call went through the handle of one Area with an entity whose row   *)
(* in d belongs to another.                                                *)
WrongHandle(c, d) ==
    /\ c.op \in MutateOps
    /\ \E row \in MutatedTable(d, c.op) : row.id = c.arg /\ row.area_id /= c.area_id

(* C29: update_address, delete_address, update_street and delete_street    *)
(* called through the handle of one Area with an entity of another Area    *)
(* change nothing: the entity's row, and every other row of the store, is  *)
(* after the call what it was before; the update returns an error and the  *)
(* delete returns Ok having removed no row.                                *)
C29_WrongHandleChangesNothing ==
    [][(IsSome(last') /\ WrongHandle(Unwrap(last'), View)) =>
          LET c == Unwrap(last')
          IN  /\ View' = View
              /\ c.op \in {"update_address", "update_street"} => c.res = "RowNotFound"
              /\ c.op \in {"delete_address", "delete_street"} => c.res = "Ok"]_vars

(* A delete_street of a Street of one Area went through the handle of the  *)
(* other; the Street is still stored, renamed by an earlier update through *)
(* its own handle, and an Address of its Area was deleted before.          *)
C29_Witness ==
    /\ IsSome(last)
    /\ Unwrap(last).op = "delete_street"
    /\ WrongHandle(Unwrap(last), View)
    /\ \E st \in View.street : st.id = Unwrap(last).arg /\ IsSome(st.name)
    /\ Cardinality(View.address) < View.seq.address


-----------------------------------------------------------------------------
(* Teardown of an open project.                                            *)
DropStep == LastIs(last', "drop") /\ ~pool_closed /\ pool_closed'
Reopened(a) == ProjectState_new(a)

(* C30: a drop inside a runtime takes no snapshot: the archive file is     *)
(* after the drop what it was before, and when the last snapshot was an    *)
(* explicit save_project, reopening the archive gives the store as that    *)
(* save packed it, without the changes made since.  A drop outside a       *)
(* runtime attempts internal_close_and_pack(false): when it succeeds the   *)
(* archive holds the current store and the pool stays closed; when it      *)
(* fails before the archive file is created anew the archive is what it    *)
(* was.  In every case drop returns normally; an error is only logged.     *)
C30_DropSnapshot ==
    [][DropStep =>
          LET c == Unwrap(last')
          IN  /\ c.res = "Ok"
              /\ IF c.arg
                 THEN /\ archive' = archive
                      /\ last_snap' = last_snap
                      /\ c.logged = "Ok"
                      /\ last_snap = SavedOk =>
                            /\ Reopened(archive').ok
                            /\ Reopened(archive').db = packed_view
                            /\ View /= packed_view => Reopened(archive').db /= View
                 ELSE /\ c.logged /= "RuntimeNew" =>
                            /\ IsSome(last_snap')
                            /\ ~Unwrap(last_snap').reopen
                            /\ Unwrap(last_snap').res = "Ok" <=> c.logged = "Ok"
                      /\ c.logged = "Ok" =>
                            /\ Reopened(archive').ok
                            /\ Reopened(archive').db = View
                            /\ Reopened(archive').images = images
                      /\ c.logged \in {"RuntimeNew", "Checkpoint", "PackBeforeCreate"} =>
                            archive' = archive]_vars

(* A project was saved, an Area was added after the save, and the project  *)
(* was dropped inside a runtime: the archive reopens without that Area.    *)
C30_Witness ==
    /\ LastIs(last, "drop")
    /\ Unwrap(last).arg
    /\ pool_closed
    /\ last_snap = SavedOk
    /\ Reopened(archive).ok
    /\ Reopened(archive).db = packed_view
    /\ Reopened(archive).db.area = {}
    /\ Unwrap(last).store.area /= {}


-----------------------------------------------------------------------------
(* Two projects open in one process.  Each ProjectState::new builds its    *)
(* own TempDir and its own RwLock<SqlitePool>; nothing is static.  The     *)
(* first project is the one of the gate above, served to one caller; the   *)
(* second is `other`, with callers of its own.                             *)
MultiTasks == {1}
OtherFrame == UNCHANGED <<gate_vars, wal, disk_vars, last, held, executor, app, address_db>>

(* A mutant: one pool for the whole process.                               *)
ProcessPoolClosed(o) == pool_closed

(* The SqlitePool behind the second project's own lock                     *)
OtherPoolClosed(o) == o.pool_closed

(* conn() on the second project: self.pool.read().await                    *)
other_call_query(t) ==
    /\ other.pc[t] = "idle"
    /\ other' = [other EXCEPT !.pc[t] = "read_wait"]
    /\ OtherFrame

(* No snapshot of the second project holds its write guard: the read       *)
(* guard is granted.                                                       *)
other_conn_read(t) ==
    /\ other.pc[t] = "read_wait"
    /\ other' = [other EXCEPT !.pc[t] = "acquire", !.readers = @ \cup {t}]
    /\ OtherFrame

(* let conn = pool_guard.acquire().await?                                  *)
other_conn_acquire(t) ==
    /\ other.pc[t] = "acquire"
    /\ IF OtherPoolClosed(other)
       THEN other' = [other EXCEPT !.pc[t] = "idle", !.readers = @ \ {t},
                                   !.last_conn = "Err"]
       ELSE other' = [other EXCEPT !.pc[t] = "guard", !.last_conn = "Ok"]
    /\ OtherFrame

(* The second project's operation returns and drops its DbConnGuard.       *)
other_drop_guard(t) ==
    /\ other.pc[t] = "guard"
    /\ other' = [other EXCEPT !.pc[t] = "idle", !.readers = @ \ {t}]
    /\ OtherFrame

(* internal_close_and_pack(r) on the second project, with no guard of it   *)
(* out; on a closed pool the checkpoint fails.                             *)
other_snapshot(t, r) ==
    /\ other.pc[t] = "idle"
    /\ other.readers = {}
    /\ other' = [other EXCEPT !.pool_closed = IF @ THEN TRUE ELSE ~r,
                              !.last_conn = "none"]
    /\ OtherFrame

NextMulti ==
    \/ \E t \in MultiTasks :
          \/ call_query(t)
          \/ conn_read(t)
          \/ conn_acquire(t)
          \/ gate_get_areas(t)
          \/ conn_return(t)
          \/ \E r \in BOOLEAN : call_snapshot(t, r)
          \/ snap_write(t)
          \/ snap_checkpoint(t)
          \/ snap_close(t)
          \/ snap_pack(t)
          \/ snap_reopen(t)
    \/ \E t \in OtherTasks :
          \/ other_call_query(t)
          \/ other_conn_read(t)
          \/ other_conn_acquire(t)
          \/ other_drop_guard(t)
          \/ \E r \in BOOLEAN : other_snapshot(t, r)

SpecMulti == InitGate /\ [][NextMulti]_vars

FirstProject == <<gate_vars, wal, disk_vars>>

(* C31: two projects open in one process are independent.  A conn() on the *)
(* second project that waits for its read guard can always take it,        *)
(* whatever the first project's lock and snapshot are doing; it returns a  *)
(* guard exactly when the second project's own pool is open, so also after *)
(* the first project was closed by a snapshot with reopen = false; and no  *)
(* step of one project changes the lock or the pool of the other.          *)
C31_ProjectsIndependent ==
    /\ [](\A t \in OtherTasks :
             other.pc[t] = "read_wait" => ENABLED other_conn_read(t))
    /\ [][\A t \in OtherTasks :
             (other.pc[t] = "acquire" /\ other'.pc[t] /= "acquire") =>
                (other'.pc[t] = "guard" <=> ~other.pool_closed)]_vars
    /\ [][(FirstProject' /= FirstProject) => other' = other]_vars
    /\ [][(other' /= other) => FirstProject' = FirstProject]_vars

(* The first project was closed by a snapshot with reopen = false and a    *)
(* further snapshot of it holds its write guard, while a caller of the     *)
(* second project holds a connection guard it was just given.              *)
C31_Witness ==
    /\ retired /\ pool_closed
    /\ writer = 1 /\ pc[1] = "checkpoint"
    /\ \E t \in OtherTasks : other.pc[t] = "guard"
    /\ other.last_conn = "Ok"
    /\ ~other.pool_closed


-----------------------------------------------------------------------------
(* AreaState and the integer it is stored as.                              *)
ConvRange == 50
ConvInts == (0 - ConvRange)..(Complete + ConvRange)

ConvFrame == RepoFrame /\ UNCHANGED <<wal, images, held, mem_vars>>

(* AreaState::try_from(value)                                              *)
ConvTryFrom(value) ==
    /\ last' = Some([op |-> "try_from", arg |-> value,
                     res |-> IF AreaState_try_from(value).ok THEN "Ok" ELSE "Err",
                     val |-> AreaState_try_from(value).val])
    /\ ConvFrame

(* i64::from(state)                                                        *)
ConvFrom(state) ==
    /\ last' = Some([op |-> "from", arg |-> state, res |-> "Ok",
                     val |-> i64_from(state)])
    /\ ConvFrame

NextConv ==
    \/ \E value \in ConvInts : ConvTryFrom(value)
    \/ \E i \in DOMAIN AreaStateVariants : ConvFrom(AreaStateVariants[i])

SpecConv == InitRepo /\ [][NextConv]_vars

(* C32: the nine states and 0..8 correspond one to one in declaration      *)
(* order.  try_from of an integer of 0..8 is Ok with the state at that     *)
(* position, and i64::from of it gives the integer back; try_from of any   *)
(* other integer is an error; i64::from of a state is its position, of     *)
(* 0..8, and try_from of it gives the state back.                          *)
C32_AreaStateBijection ==
    /\ Len(AreaStateVariants) = 9
    /\ \A i, j \in DOMAIN AreaStateVariants :
          AreaStateVariants[i] = AreaStateVariants[j] => i = j
    /\ LastIs(last, "try_from") =>
          LET c == Unwrap(last)
          IN  IF c.arg \in Imported..Complete
              THEN /\ c.res = "Ok"
                   /\ c.val = AreaStateVariants[c.arg + 1]
                   /\ i64_from(c.val) = c.arg
              ELSE c.res = "Err"
    /\ LastIs(last, "from") =>
          LET c == Unwrap(last)
          IN  /\ c.val \in Imported..Complete
              /\ AreaStateVariants[c.val + 1] = c.arg
              /\ AreaState_try_from(c.val) = [ok |-> TRUE, val |-> c.arg]

(* try_from was applied to 9, the first integer past Complete.             *)
C32_Witness ==
    /\ LastIs(last, "try_from")
    /\ Unwrap(last).arg = Complete + 1
    /\ Unwrap(last).res = "Err"


-----------------------------------------------------------------------------
(* The detection pipeline: steps, work items and the queue executor.       *)
ExecMaxItems == 2       \* initial work items handed to execute
ExecMaxSteps == 3       \* steps of a pipeline

(* PipelineData is told apart by where it came from: the input it started  *)
(* as and the outputs it was on the way.  Steps that treat each item on    *)
(* its own: a transform (1 -> 1), a split (1 -> 2) and a filter (1 -> 0    *)
(* or 1: what a split put second is dropped, and so is the second input).  *)
StepKinds == {"Transform", "Split", "Filter"}
process_item(step, data) ==
    CASE step = "Transform" -> <<Append(data, 0)>>
      [] step = "Split"     -> <<Append(data, 1), Append(data, 2)>>
      [] step = "Filter"    -> IF data[Len(data)] = 2 THEN <<>> ELSE <<data>>

(* PipelineStep::process(data, context) of such a step                     *)
RECURSIVE step_process(_, _)
step_process(step, data) ==
    IF data = <<>> THEN <<>>
    ELSE process_item(step, Head(data)) \o step_process(step, Tail(data))

RECURSIVE SeqsUpTo(_, _)
SeqsUpTo(S, n) ==
    IF n = 0 THEN {<<>>}
    ELSE LET shorter == SeqsUpTo(S, n - 1)
         IN  shorter \cup {Append(q, x) : q \in shorter, x \in S}
Pipelines == SeqsUpTo(StepKinds, ExecMaxSteps)

(* WorkItem::new(data, steps)                                              *)
WorkItem_new(data, steps) == [data |-> data, remaining_steps |-> steps]
is_complete(item) == item.remaining_steps = <<>>

(* WorkItem::process_next_step: the first remaining step is applied to the *)
(* item's data; each output becomes an item with the steps after it.       *)
process_next_step(item) ==
    IF item.remaining_steps = <<>> THEN <<>>
    ELSE LET results == step_process(Head(item.remaining_steps), <<item.data>>)
         IN  [i \in DOMAIN results |->
                 [data |-> results[i], remaining_steps |-> Tail(item.remaining_steps)]]

(* A mutant: each item is put at the front of the channel.                 *)
mpsc_send_front(channel, items) ==
    [i \in DOMAIN items |-> items[Len(items) + 1 - i]] \o channel

(* self.sender.send(item) for each item of a list, in order                *)
mpsc_send(channel, items) == channel \o items

(* let mut pending_count = 1; // Start with at least 1 item                *)
pending_count_init(initial_items) == 1

ExecFrame ==
    UNCHANGED <<gate_vars, wal, disk_vars, last, held, other, app, address_db>>

(* execute(initial_items) up to the loop: every item is sent               *)
ExecStart(via, initial_items) ==
    /\ executor.pc = "idle"
    /\ executor' = [pc |-> "loop", via |-> via, initial_items |-> initial_items,
                    channel |-> mpsc_send(<<>>, initial_items),
                    completed_results |-> <<>>,
                    pending_count |-> pending_count_init(initial_items),
                    yielded |-> FALSE]
    /\ ExecFrame

(* PipelineExecutor::execute on WorkItem::new(input i, steps), i = 1..n    *)
execute(n, steps) ==
    ExecStart("execute", [i \in 1..n |-> WorkItem_new(<<i>>, steps)])

(* Pipeline::run_with_executor(input): execute(vec![initial_item])         *)
run_with_executor(steps) ==
    ExecStart("run_with_executor", <<WorkItem_new(<<1>>, steps)>>)

(* One turn of the loop with Ok(item) = self.receiver.try_recv()           *)
ExecRecv ==
    /\ executor.pc = "loop"
    /\ executor.pending_count > 0
    /\ executor.channel /= <<>>
    /\ LET item == Head(executor.channel)
           new_items == process_next_step(item)
       IN  executor' =
              IF is_complete(item)
              THEN [executor EXCEPT !.channel = Tail(@),
                                    !.pending_count = @ - 1,
                                    !.completed_results = Append(@, item.data)]
              ELSE [executor EXCEPT !.channel = mpsc_send(Tail(@), new_items),
                                    !.pending_count = @ - 1 + Len(new_items)]
    /\ ExecFrame

(* One turn with Err(TryRecvError::Empty) and pending_count > 0:           *)
(* std::thread::yield_now() and the loop goes on.  The sender lives in     *)
(* self, so the channel is never Disconnected.                             *)
ExecYield ==
    /\ executor.pc = "loop"
    /\ executor.pending_count > 0
    /\ executor.channel = <<>>
    /\ executor' = [executor EXCEPT !.yielded = TRUE]
    /\ ExecFrame

(* while pending_count > 0 ends: Ok(completed_results)                     *)
ExecReturn ==
    /\ executor.pc = "loop"
    /\ executor.pending_count = 0
    /\ executor' = [executor EXCEPT !.pc = "done"]
    /\ ExecFrame

ExecStep == ExecRecv \/ ExecYield \/ ExecReturn

NextExec ==
    \/ \E n \in 0..ExecMaxItems, steps \in Pipelines : execute(n, steps)
    \/ \E steps \in Pipelines : run_with_executor(steps)
    \/ ExecRecv
    \/ ExecYield
    \/ ExecReturn

SpecExec == InitGate /\ [][NextExec]_vars

(* The thread running execute keeps running.                               *)
SpecExecLive == SpecExec /\ WF_vars(ExecStep)

(* C33: execute terminates for every finite list of initial work items,    *)
(* the empty list included: a call that entered the loop returns.          *)
C33_ExecuteTerminates == (executor.pc = "loop") ~> (executor.pc = "done")


(* A call of execute that entered the loop with at least one work item     *)
(* returns.                                                                *)
ExecuteTerminatesNonEmpty ==
    (executor.pc = "loop" /\ executor.initial_items /= <<>>) ~> (executor.pc = "done")

(* Pipeline::run: the steps in turn, each on the whole list                *)
RECURSIVE Pipeline_run(_, _)
Pipeline_run(steps, data) ==
    IF steps = <<>> THEN data
    ELSE Pipeline_run(Tail(steps), step_process(Head(steps), data))

ExecSteps ==
    IF executor.initial_items = <<>> THEN <<>>
    ELSE executor.initial_items[1].remaining_steps
ExecInputs == [i \in DOMAIN executor.initial_items |-> executor.initial_items[i].data]

(* C34: when execute returns Ok no work item is left in the queue, and the *)
(* results are, one each, the work items that reached an empty list of     *)
(* remaining steps: the outputs of the last step for every initial item.   *)
(* An item whose step returned no outputs has no result.                   *)
C34_OneResultPerCompletedItem ==
    executor.pc = "done" =>
        /\ executor.channel = <<>>
        /\ Len(executor.completed_results) = Len(Pipeline_run(ExecSteps, ExecInputs))
        /\ Range(executor.completed_results) = Range(Pipeline_run(ExecSteps, ExecInputs))

(* The same for a call with exactly one initial work item.                 *)
OneResultPerCompletedItemSingle ==
    (executor.pc = "done" /\ Len(executor.initial_items) = 1) =>
        /\ executor.channel = <<>>
        /\ Len(executor.completed_results) = Len(Pipeline_run(ExecSteps, ExecInputs))
        /\ Range(executor.completed_results) = Range(Pipeline_run(ExecSteps, ExecInputs))

(* C35: run_with_executor and run return the same results in the same      *)
(* order, for every pipeline of steps that treat each item on its own.     *)
C35_ExecutorAgreesWithRun ==
    (executor.pc = "done" /\ executor.via = "run_with_executor") =>
        executor.completed_results = Pipeline_run(ExecSteps, <<<<1>>>>)

(* run_with_executor returned on a pipeline that splits and then filters:  *)
(* several results, fewer than the items the split made.                   *)
C35_Witness ==
    /\ executor.pc = "done"
    /\ executor.via = "run_with_executor"
    /\ ExecSteps = <<"Split", "Split", "Filter">>
    /\ Len(executor.completed_results) = 2


-----------------------------------------------------------------------------
(* A snapshot call returns Err from the step it is at.                     *)
FailsAt(t, steps) ==
    /\ pc[t] \in steps
    /\ pc'[t] = "idle"
    /\ last_snap' = Some([reopen |-> reopen[t], res |-> "Err"])
SnapshotReturns(t) == SnapshotRunning(t) /\ pc'[t] = "idle"
PastClose == \E t \in GateTasks : pc[t] \in {"pack", "reopen"}

(* C36: what a failed save_project leaves depends on the step that failed. *)
(* A checkpoint that fails on an open pool leaves the pool open and the    *)
(* lock free, and a conn() that finds the pool open gets its guard.  A     *)
(* failure of packing or of reopening leaves the pool closed.  A pool that *)
(* is closed with no snapshot between its close and its reopen stays       *)
(* closed: every conn() from then on returns an error and every            *)
(* internal_close_and_pack returns an error at its checkpoint.             *)
C36_FailedSaveUsability ==
    /\ [][\A t \in GateTasks :
             /\ (FailsAt(t, {"checkpoint"}) /\ ~pool_closed) =>
                    (~pool_closed' /\ writer' = NoTask)
             /\ FailsAt(t, {"pack", "reopen"}) => pool_closed'
             /\ (ConnReturns(t) /\ ~pool_closed) => (GuardLive(t)' /\ last_conn' = "Ok")]_vars
    /\ [][(pool_closed /\ ~PastClose) =>
             /\ pool_closed'
             /\ \A t \in GateTasks :
                   /\ ConnReturns(t) => (pc'[t] = "idle" /\ last_conn' = "Err")
                   /\ SnapshotReturns(t) =>
                         (pc[t] = "checkpoint" /\ Unwrap(last_snap').res = "Err")]_vars

(* save_project failed after the pool was closed; a later conn() returned  *)
(* an error and a later save_project is at its checkpoint, about to fail.  *)
C36_Witness ==
    /\ pool_closed /\ ~retired
    /\ last_snap = Some([reopen |-> TRUE, res |-> "Err"])
    /\ last_conn = "Err"
    /\ \E t \in GateTasks : pc[t] = "checkpoint" /\ reopen[t]


-----------------------------------------------------------------------------
(* One DbConnGuard per repository operation.                               *)
CallsConn(t) == pc[t] /= "read_wait" /\ pc'[t] = "read_wait"
OperationReturns(t) == GuardLive(t) /\ ~GuardLive(t)'
SnapshotQueued == \E s \in GateTasks : pc[s] = "write_wait"

(* C37: a repository operation calls conn() once, holding no guard, and    *)
(* has released the read lock when it returns; so a task is never both a   *)
(* holder of the read lock and a waiter for it, and an operation that      *)
(* holds its guard can always take its next step and return, also with a   *)
(* snapshot queued behind it for the write lock.                           *)
C37_OneGuardPerOperation ==
    /\ [](\A t \in GateTasks :
             /\ ~(t \in readers /\ t \in Range(lockq))
             /\ pc[t] \in {"idle", "conn_return"} => t \notin readers
             /\ pc[t] = "guard" => ENABLED gate_get_areas(t)
             /\ pc[t] = "stored" => ENABLED gate_add_area_insert(t))
    /\ [][\A t \in GateTasks :
             /\ CallsConn(t) => (pc[t] = "idle" /\ t \notin readers)
             /\ OperationReturns(t) => t \notin readers']_vars

(* add_area holds its guard, its image stored and its row not yet          *)
(* inserted, and a snapshot waits behind it for the write lock.            *)
C37_Witness ==
    \E s, t \in GateTasks :
        /\ pc[t] = "stored" /\ t \in readers
        /\ pc[s] = "write_wait" /\ lockq = <<s>>


-----------------------------------------------------------------------------
(* Area rows and the image files of the working directory.                 *)
ImgMaxImages == 3
AddAreaOutcomes == {"Ok", "CopyFails", "InsertFails"}

(* A mutant: the row is inserted before the image file is copied.          *)
add_area_insert_first(d, imgs, area, outcome) ==
    CASE outcome = "InsertFails" -> [db |-> d, images |-> imgs, res |-> "Err", val |-> 0]
      [] outcome = "CopyFails" ->
            [db |-> add_area(d, area, NewImageName).db, images |-> imgs,
             res |-> "Err", val |-> 0]
      [] outcome = "Ok" ->
            [db |-> add_area(d, area, NewImageName).db,
             images |-> imgs \cup {NewImageName}, res |-> "Ok",
             val |-> add_area(d, area, NewImageName).val]

(* AreaRepository::add_area with its failures: store_area_image(..)? copies *)
(* the file under a fresh name, then the INSERT's `?`; nothing removes the *)
(* file when the INSERT fails.                                             *)
add_area_with_image(d, imgs, area, outcome) ==
    CASE outcome = "CopyFails" -> [db |-> d, images |-> imgs, res |-> "Err", val |-> 0]
      [] outcome = "InsertFails" ->
            [db |-> d, images |-> imgs \cup {NewImageName}, res |-> "Err", val |-> 0]
      [] outcome = "Ok" ->
            [db |-> add_area(d, area, NewImageName).db,
             images |-> imgs \cup {NewImageName}, res |-> "Ok",
             val |-> add_area(d, area, NewImageName).val]

ImgAddArea(outcome) ==
    /\ Cardinality(images) < ImgMaxImages
    /\ LET r == add_area_with_image(View, images, NewArea(View.seq.area + 1), outcome)
       IN  /\ Commit(r.db)
           /\ images' = r.images
           /\ last' = Some([op |-> "add_area", area_id |-> r.val, res |-> r.res,
                            val |-> None, outcome |-> outcome])
    /\ UNCHANGED <<held, mem_vars>>
    /\ RepoFrame

NextImage ==
    \/ \E outcome \in AddAreaOutcomes : ImgAddArea(outcome)
    \/ \E h \in Handles : AreaDelete(h)
    \/ \E id \in 1..ImgMaxImages : AreaGetAreaRepo(id)
    \/ OpenSave

SpecImage == InitRepo /\ [][NextImage]_vars

ImageFiles(d) == {a.image_fname : a \in d.area}

(* C38: every Area row's image_fname names a file of images/, so           *)
(* get_area_repo of a stored Area never fails on its image; no file of     *)
(* images/ is ever removed, a delete() in particular leaves the directory  *)
(* as it was; every snapshot packs the whole directory, the files of       *)
(* deleted Areas included; and an add_area whose INSERT fails leaves the   *)
(* store as it was and the copied file in the directory.                   *)
C38_ImageStore ==
    /\ [](ImageFiles(View) \subseteq images)
    /\ [](LastIs(last, "get_area_repo") => Unwrap(last).res /= "ImageError")
    /\ [][/\ images \subseteq images'
          /\ LastIs(last', "delete") => images' = images
          /\ LastIs(last', "save_project") => archive'.images = images
          /\ (LastIs(last', "add_area") /\ Unwrap(last').outcome = "InsertFails") =>
                (View' = View /\ images' = images \cup {NewImageName})]_vars

(* The packed archive holds the image file of an Area deleted before the   *)
(* save and the file an add_area left when its INSERT failed: two files no *)
(* row names, beside the file of a stored Area.                            *)
C38_Witness ==
    /\ LastIs(last, "save_project")
    /\ archive.kind = "tar"
    /\ Cardinality(archive.images \ ImageFiles(View)) = 2
    /\ Cardinality(View.area) = 1
    /\ View.seq.area = 2


-----------------------------------------------------------------------------
(* The GUI: AddrslipsApp { state: AppState, screen: ScreenData } and the   *)
(* Tasks its updates have started.  A Task's message is handled by update  *)
(* when the Task completes.                                                *)
GuiMaxTasks == 4
Spawn(a, kind) == [a EXCEPT !.tasks[kind] = @ + 1]
Finish(a, kind) == [a EXCEPT !.tasks[kind] = @ - 1]
Running(a) == a.tasks["dialog"] + a.tasks["change_screen"] + a.tasks["load"]

(* A mutant: LoadProject stores the project and leaves the screen.         *)
Screen_update_load_keeps_screen(a, message) ==
    LET b == [a EXCEPT !.message = message.kind]
    IN  CASE message.kind = "ChangeScreen" -> [b EXCEPT !.screen = message.screen]
          [] message.kind = "LoadProject" -> [b EXCEPT !.current_project = Some(message.project)]
          [] a.screen = "LandingPage" /\ message.kind \in {"OpenProject", "CreateProject"} ->
                Spawn(b, "dialog")
          [] a.screen = "LandingPage" /\ message.kind = "OpenedProject" ->
                IF a.current_project = None THEN Spawn(b, "change_screen")
                ELSE [b EXCEPT !.panicked = "assert"]
          [] OTHER -> b

(* Screen::update for ScreenData, with LandingPageScreen::update for the   *)
(* page's own messages.  OpenedProject starts Task::done(ChangeScreen(     *)
(* LoadingPage)).chain(Task::perform(load, ..)).                           *)
Screen_update(a, message) ==
    LET b == [a EXCEPT !.message = message.kind]
    IN  CASE message.kind = "ChangeScreen" -> [b EXCEPT !.screen = message.screen]
          [] message.kind = "LoadProject" ->
                [b EXCEPT !.current_project = Some(message.project),
                          !.screen = "SelectAreaPage"]
          [] a.screen = "LandingPage" /\ message.kind \in {"OpenProject", "CreateProject"} ->
                Spawn(b, "dialog")
          [] a.screen = "LandingPage" /\ message.kind = "OpenedProject" ->
                IF a.current_project = None THEN Spawn(b, "change_screen")
                ELSE [b EXCEPT !.panicked = "assert"]
          [] OTHER -> b

GuiFrame ==
    UNCHANGED <<gate_vars, wal, disk_vars, last, held, other, executor, address_db>>

(* A button of the landing page's view is pressed.                         *)
GuiPress(button) ==
    /\ app.panicked = "none"
    /\ app.screen = "LandingPage"
    /\ Running(app) < GuiMaxTasks
    /\ app' = Screen_update(app, [kind |-> button])
    /\ GuiFrame

(* The file dialog ends: a file was picked (OpenedProject) or not (None).  *)
GuiDialogDone(picked) ==
    /\ app.panicked = "none"
    /\ app.tasks["dialog"] > 0
    /\ app' = Screen_update(Finish(app, "dialog"),
                            [kind |-> IF picked THEN "OpenedProject" ELSE "None"])
    /\ GuiFrame

(* Task::done(ChangeScreen(LoadingPage)) of a chain is delivered; the load *)
(* chained after it starts.                                                *)
GuiChangeScreen ==
    /\ app.panicked = "none"
    /\ app.tasks["change_screen"] > 0
    /\ app' = Spawn(Screen_update(Finish(app, "change_screen"),
                                  [kind |-> "ChangeScreen", screen |-> "LoadingPage"]),
                    "load")
    /\ GuiFrame

(* ProjectDb::new(path) and SelectAreaScreen::new end: LoadProject, or     *)
(* result.expect("Failed to open project") panics.                         *)
GuiLoadDone(ok) ==
    /\ app.panicked = "none"
    /\ app.tasks["load"] > 0
    /\ app' = IF ok
              THEN Screen_update(Finish(app, "load"),
                                 [kind |-> "LoadProject", project |-> 1])
              ELSE [Finish(app, "load") EXCEPT !.panicked = "expect"]
    /\ GuiFrame

NextGui ==
    \/ \E button \in {"OpenProject", "CreateProject"} : GuiPress(button)
    \/ \E picked \in BOOLEAN : GuiDialogDone(picked)
    \/ GuiChangeScreen
    \/ \E ok \in BOOLEAN : GuiLoadDone(ok)

SpecGui == InitGate /\ [][NextGui]_vars

(* C39: while the landing page is the current screen no project is         *)
(* loaded, so the assertion made on OpenedProject never fails; and         *)
(* current_project becomes Some only in the update of a LoadProject        *)
(* message, which leaves SelectAreaPage as the screen.                     *)
C39_LandingHasNoProject ==
    /\ [](app.screen = "LandingPage" => app.current_project = None)
    /\ [](app.panicked /= "assert")
    /\ [][(app.current_project = None /\ app'.current_project /= None) =>
             (app'.message = "LoadProject" /\ app'.screen = "SelectAreaPage")]_vars

(* Two projects were picked from the landing page before the screen        *)
(* changed; the first is loaded and shown, the second still loads.         *)
C39_Witness ==
    /\ app.current_project /= None
    /\ app.screen = "SelectAreaPage"
    /\ app.tasks["load"] = 1
    /\ app.panicked = "none"


-----------------------------------------------------------------------------
(* The in-memory AddressDatabase (core/db/address.rs): addresses by id,    *)
(* street_index (street -> ids), addr_index (street or Uuid::nil() ->      *)
(* house_number -> id) and estimated_flats_index (flats -> ids).           *)
AdbMaxIds == 2
AdbMaxStreets == 1
Uuid_nil == 0
AdbIds == 1..AdbMaxIds
AdbStreets == 1..AdbMaxStreets
AdbHouseNumbers == {"1", "2"}
AdbFlats == {2}
AdbAddresses ==
    [id : AdbIds,
     assigned_street_id : {None} \cup {Some(s) : s \in AdbStreets},
     house_number : AdbHouseNumbers,
     estimated_flats : {None} \cup {Some(f) : f \in AdbFlats}]

(* HashMap::insert, HashMap::remove and entry(k).or_insert_with(..).       *)
MapInsert(m, k, v) == [x \in DOMAIN m \cup {k} |-> IF x = k THEN v ELSE m[x]]
MapRemove(m, k) == [x \in DOMAIN m \ {k} |-> m[x]]
MapEntry(m, k, empty) == IF k \in DOMAIN m THEN m[k] ELSE empty
unwrap_or(o, default) == IF o = None THEN default ELSE o[1]

(* The part of insert that feeds the three indexes that insert maintains.  *)
index_address(db, address) ==
    LET key == unwrap_or(address.assigned_street_id, Uuid_nil)
        a1 == [db EXCEPT !.addr_index =
                  MapInsert(@, key, MapInsert(MapEntry(@, key, <<>>),
                                              address.house_number, address.id))]
        a2 == IF address.estimated_flats /= None
              THEN [a1 EXCEPT !.estimated_flats_index =
                       MapInsert(@, address.estimated_flats[1],
                                 MapEntry(@, address.estimated_flats[1], {})
                                    \cup {address.id})]
              ELSE a1
    IN  a2

(* AddressDatabase::insert (asserted: the id is not stored yet).           *)
(* street_index is not written.                                            *)
AddressDatabase_insert(db, address) ==
    [index_address(db, address) EXCEPT !.addresses = MapInsert(@, address.id, address)]

(* The street_index loop of from_addresses.                                *)
index_street(db, address) ==
    IF address.assigned_street_id /= None
    THEN [db EXCEPT !.street_index =
             MapInsert(@, address.assigned_street_id[1],
                       MapEntry(@, address.assigned_street_id[1], {}) \cup {address.id})]
    ELSE db

(* AddressDatabase::from_addresses: each index is built by a loop over the *)
(* Vec in order, then the addresses are collected by id.                   *)
RECURSIVE from_addresses_onto(_, _)
from_addresses_onto(db, addresses) ==
    IF addresses = <<>> THEN db
    ELSE from_addresses_onto(
            index_street(AddressDatabase_insert(db, Head(addresses)), Head(addresses)),
            Tail(addresses))
from_addresses(addresses) == from_addresses_onto(AddressDatabase_new, addresses)

(* AddressDatabase::remove: [db, val], val the removed address if any.     *)
AddressDatabase_remove(db, id) ==
    IF id \notin DOMAIN db.addresses THEN [db |-> db, val |-> None]
    ELSE
    LET address == db.addresses[id]
        d0 == [db EXCEPT !.addresses = MapRemove(@, id)]
        d1 == IF address.assigned_street_id /= None
              THEN LET street_id == address.assigned_street_id[1]
                       s1 == IF street_id \in DOMAIN d0.street_index
                             THEN LET addr_set == d0.street_index[street_id] \ {id}
                                  IN  [d0 EXCEPT !.street_index =
                                          IF addr_set = {} THEN MapRemove(@, street_id)
                                          ELSE MapInsert(@, street_id, addr_set)]
                             ELSE d0
                       s2 == IF street_id \in DOMAIN s1.addr_index
                             THEN LET hn_map == MapRemove(s1.addr_index[street_id],
                                                          address.house_number)
                                  IN  [s1 EXCEPT !.addr_index =
                                          IF DOMAIN hn_map = {} THEN MapRemove(@, street_id)
                                          ELSE MapInsert(@, street_id, hn_map)]
                             ELSE s1
                   IN  s2
              ELSE d0
        d2 == IF address.estimated_flats /= None
                 /\ address.estimated_flats[1] \in DOMAIN d1.estimated_flats_index
              THEN LET flats == address.estimated_flats[1]
                       id_set == d1.estimated_flats_index[flats] \ {id}
                   IN  [d1 EXCEPT !.estimated_flats_index =
                           IF id_set = {} THEN MapRemove(@, flats)
                           ELSE MapInsert(@, flats, id_set)]
              ELSE d1
    IN  [db |-> d2, val |-> Some(address)]

(* AddressDatabase::get_by_addr.                                           *)
get_by_addr(db, street, house_number) ==
    IF street \in DOMAIN db.addr_index
       /\ house_number \in DOMAIN db.addr_index[street]
       /\ db.addr_index[street][house_number] \in DOMAIN db.addresses
    THEN Some(db.addresses[db.addr_index[street][house_number]])
    ELSE None

AdbFrame ==
    UNCHANGED <<gate_vars, wal, disk_vars, last, held, other, executor, app>>

(* Vecs of addresses with distinct ids.                                    *)
AdbVecs ==
    {<<>>} \cup {<<a>> : a \in AdbAddresses}
           \cup {v \in AdbAddresses \X AdbAddresses : v[1].id /= v[2].id}

AdbFromAddresses(addresses) ==
    /\ address_db' = from_addresses(addresses)
    /\ AdbFrame

AdbInsert(address) ==
    /\ address.id \notin DOMAIN address_db.addresses
    /\ address_db' = AddressDatabase_insert(address_db, address)
    /\ AdbFrame

AdbRemove(id) ==
    /\ address_db' = AddressDatabase_remove(address_db, id).db
    /\ AdbFrame

NextAdb ==
    \/ \E addresses \in AdbVecs : AdbFromAddresses(addresses)
    \/ \E address \in AdbAddresses : AdbInsert(address)
    \/ \E id \in AdbIds : AdbRemove(id)

SpecAdb == InitGate /\ [][NextAdb]_vars

IndexedIds(db) ==
    UNION {db.street_index[s] : s \in DOMAIN db.street_index}
    \cup UNION {Range(db.addr_index[k]) : k \in DOMAIN db.addr_index}
    \cup UNION {db.estimated_flats_index[f] : f \in DOMAIN db.estimated_flats_index}

(* C40: every id held in street_index, addr_index and                      *)
(* estimated_flats_index is a key of the addresses map, and every stored   *)
(* address with an assigned street is in street_index under that street    *)
(* and is what get_by_addr(street, house_number) returns.                  *)
C40_IndexConsistency ==
    /\ IndexedIds(address_db) \subseteq DOMAIN address_db.addresses
    /\ \A id \in DOMAIN address_db.addresses :
          LET address == address_db.addresses[id]
          IN  address.assigned_street_id /= None =>
                 /\ address.assigned_street_id[1] \in DOMAIN address_db.street_index
                 /\ id \in address_db.street_index[address.assigned_street_id[1]]
                 /\ get_by_addr(address_db, address.assigned_street_id[1],
                                address.house_number) = Some(address)

(* What does hold: estimated_flats_index is exact.                         *)
FlatsIndexExact ==
    \A id \in AdbIds, f \in AdbFlats :
        (f \in DOMAIN address_db.estimated_flats_index
            /\ id \in address_db.estimated_flats_index[f])
        <=> (id \in DOMAIN address_db.addresses
                /\ address_db.addresses[id].estimated_flats = Some(f))

=============================================================================
